---------------------------- MODULE Spec2Model ----------------------------
(***************************************************************************)
(* A model of the GraphQL execution engine of graph-node                   *)
(* (graphql/src/execution/execution.rs and graphql/src/query/mod.rs).      *)
(*                                                                         *)
(* The engine is a synchronous recursive interpreter, so every function of *)
(* the source is an operator of the same name that takes the Execution     *)
(* context (`self`) and returns its result together with the updated       *)
(* context.  A panic (unimplemented!(), expect, unwrap) is the flag        *)
(* self.panicked: once set, nothing else is executed and execute_query     *)
(* returns no QueryResult.  The context also carries a log of the          *)
(* observable steps (field dispatches, resolver calls, nested selection    *)
(* set executions); the log is what the properties below talk about.       *)
(***************************************************************************)
EXTENDS Integers, Sequences, FiniteSets, TLC

VARIABLES
    pc,        \* "ready" | "done" | "coerced" | "collect" | "collected" | "panicked" | "completed"
    query,     \* Query { document, schema } handed to execute_query
    resolver,  \* the user resolver (QueryOptions.resolver), as a data profile
    result,    \* what execute_query returned
    trace,     \* the execution log of that call
    coercion,  \* input and output of a stand-alone coerce_argument_values call
    frames,    \* the call stack of a collect_fields call that runs step by step
    completion, \* input and output of a stand-alone complete_value call
    conn,      \* a GraphQL over WebSocket connection and its subscription tasks
    manager    \* the SubgraphInstanceManager's event channel and instances map

vars == <<pc, query, resolver, result, trace, coercion, frames, completion, conn, manager>>

(***************************************************************************)
(* Bounds                                                                  *)
(***************************************************************************)
\* Largest number of selections in the root selection set of a document.
MaxSel == 2

(***************************************************************************)
(* Option and Result                                                       *)
(***************************************************************************)
None == [some |-> FALSE]
Some(x) == [some |-> TRUE, x |-> x]

Ok(v) == [ok |-> TRUE, v |-> v]
Err(e) == [ok |-> FALSE, e |-> e]

(***************************************************************************)
(* q::Value                                                                *)
(***************************************************************************)
Null == [t |-> "Null"]
StringV(s) == [t |-> "String", v |-> s]
\* Int literals carry their numeral.
IntV(n) == [t |-> "Int", v |-> n]
EnumV(s) == [t |-> "Enum", v |-> s]
VariableV(s) == [t |-> "Variable", v |-> s]
ListV(items) == [t |-> "List", items |-> items]
\* Value::Object wraps a BTreeMap<String, Value>: the entries are kept as a
\* sequence of <<key, value>> pairs in ascending key order.
ObjectV(entries) == [t |-> "Object", entries |-> entries]

\* Every name the model uses as a BTreeMap key, in the byte order of
\* String's Ord ('_' sorts before the lower-case letters).
NameOrder ==
    << "__schema", "__type", "a", "b", "friend", "ghost", "ghosts", "id",
       "kind", "me", "missing", "name", "nick", "node", "queryType", "role",
       "tags", "types", "user", "users", "z" >>

Rank(n) == CHOOSE i \in 1..Len(NameOrder) : NameOrder[i] = n

\* BTreeMap::insert: replaces the value of an existing key, otherwise puts
\* the entry at its place in key order.
RECURSIVE BTreeInsert(_, _, _)
BTreeInsert(entries, key, value) ==
    IF entries = <<>> THEN << <<key, value>> >>
    ELSE IF Head(entries)[1] = key THEN << <<key, value>> >> \o Tail(entries)
    ELSE IF Rank(key) < Rank(Head(entries)[1]) THEN << <<key, value>> >> \o entries
    ELSE << Head(entries) >> \o BTreeInsert(Tail(entries), key, value)

\* BTreeMap::get on the entries of an Object value.
BTreeGet(entries, key) ==
    IF \E i \in 1..Len(entries) : entries[i][1] = key
    THEN Some(entries[CHOOSE i \in 1..Len(entries) : entries[i][1] = key][2])
    ELSE None

Keys(entries) == [i \in 1..Len(entries) |-> entries[i][1]]

(***************************************************************************)
(* Schema AST (graphql_parser::schema)                                     *)
(***************************************************************************)
NamedType(n) == [k |-> "NamedType", name |-> n]
NonNullType(ty) == [k |-> "NonNullType", of |-> ty]
ListType(ty) == [k |-> "ListType", of |-> ty]

InputValue(n, ty, default) == [name |-> n, value_type |-> ty, default_value |-> default]
Field(n, ty, args) == [name |-> n, field_type |-> ty, arguments |-> args]

ObjectType(n, ifaces, fs) ==
    [kind |-> "Object", name |-> n, implements_interfaces |-> ifaces, fields |-> fs]
InterfaceType(n, fs) == [kind |-> "Interface", name |-> n, fields |-> fs]
UnionType(n, members) == [kind |-> "Union", name |-> n, types |-> members]
EnumType(n, vals) == [kind |-> "Enum", name |-> n, values |-> vals]
ScalarType(n) == [kind |-> "Scalar", name |-> n]

(***************************************************************************)
(* schema::ast helpers                                                     *)
(***************************************************************************)
\* sast::get_named_type: the type definition of that name, if any.
get_named_type(schema, name) ==
    IF \E i \in 1..Len(schema.definitions) : schema.definitions[i].name = name
    THEN Some(schema.definitions[
             CHOOSE i \in 1..Len(schema.definitions) :
                 /\ schema.definitions[i].name = name
                 /\ \A j \in 1..(i - 1) : schema.definitions[j].name # name])
    ELSE None

\* sast::get_root_query_type: the object type called Query, if any.
get_root_query_type(schema) ==
    IF \E i \in 1..Len(schema.definitions) :
           /\ schema.definitions[i].kind = "Object"
           /\ schema.definitions[i].name = "Query"
    THEN Some(schema.definitions[
             CHOOSE i \in 1..Len(schema.definitions) :
                 /\ schema.definitions[i].kind = "Object"
                 /\ schema.definitions[i].name = "Query"])
    ELSE None

\* sast::get_field_type: the field definition of that name on the object type.
sast_get_field_type(object_type, name) ==
    IF \E i \in 1..Len(object_type.fields) : object_type.fields[i].name = name
    THEN Some(object_type.fields[
             CHOOSE i \in 1..Len(object_type.fields) :
                 /\ object_type.fields[i].name = name
                 /\ \A j \in 1..(i - 1) : object_type.fields[j].name # name])
    ELSE None

\* sast::get_argument_definitions: the argument definitions of the field of
\* that name on the object type.
get_argument_definitions(object_type, name) ==
    IF sast_get_field_type(object_type, name).some
    THEN Some(sast_get_field_type(object_type, name).x.arguments)
    ELSE None

\* sast::get_type_name
get_type_name(type_definition) == type_definition.name

(***************************************************************************)
(* Query AST (graphql_parser::query)                                       *)
(***************************************************************************)
Pos(line, column) == [line |-> line, column |-> column]

SelectionSet(items) == [items |-> items]

\* Selection::Field.  arguments is a sequence of <<name, literal>> pairs,
\* directives a sequence of [name, if] records.
FieldNode(alias, name, args, dirs, items, pos) ==
    [sel |-> "Field", alias |-> alias, name |-> name, arguments |-> args,
     directives |-> dirs, selection_set |-> SelectionSet(items), position |-> pos]

FragmentSpread(name) == [sel |-> "FragmentSpread", fragment_name |-> name, directives |-> <<>>]

InlineFragment(cond, items) ==
    [sel |-> "InlineFragment", type_condition |-> cond, directives |-> <<>>,
     selection_set |-> SelectionSet(items)]

FragmentDefinition(name, cond, items) ==
    [name |-> name, type_condition |-> cond, selection_set |-> SelectionSet(items)]

\* qast::skip_selection: the selection has @skip(if: true).
skip_selection(selection) ==
    \E i \in 1..Len(selection.directives) :
        selection.directives[i].name = "skip" /\ selection.directives[i].if

\* qast::include_selection: the selection has no @include(if: false).
include_selection(selection) ==
    \A i \in 1..Len(selection.directives) :
        selection.directives[i].name = "include" => selection.directives[i].if

\* qast::get_response_key: the alias, or else the name.
get_response_key(field) == IF field.alias.some THEN field.alias.x ELSE field.name

\* qast::get_fragment: the fragment definition of that name, if any.
get_fragment(document, name) ==
    IF \E i \in 1..Len(document.fragments) : document.fragments[i].name = name
    THEN Some(document.fragments[
             CHOOSE i \in 1..Len(document.fragments) :
                 /\ document.fragments[i].name = name
                 /\ \A j \in 1..(i - 1) : document.fragments[j].name # name])
    ELSE None

\* qast::get_argument_value: the literal the field node gives that argument.
get_argument_value(arguments, name) ==
    IF \E i \in 1..Len(arguments) : arguments[i][1] = name
    THEN Some(arguments[
             CHOOSE i \in 1..Len(arguments) :
                 /\ arguments[i][1] = name
                 /\ \A j \in 1..(i - 1) : arguments[j][1] # name][2])
    ELSE None

\* qast::get_operation(document, None): the document's only operation;
\* OperationNameRequired when there are several, OperationNotFound when
\* there is none.
get_operation(document) ==
    IF Len(document.operations) = 1 THEN Ok(document.operations[1])
    ELSE IF Len(document.operations) = 0
         THEN Err([e |-> "OperationNotFound", name |-> ""])
         ELSE Err([e |-> "OperationNameRequired"])

(***************************************************************************)
(* The Execution context                                                   *)
(***************************************************************************)
\* Appends an event to the log of the context.
Logged(self, event) == [self EXCEPT !.log = Append(@, event)]

\* A panic: the thread unwinds, nothing else of the execution happens.
Panicked(self, why) == [self EXCEPT !.panicked = TRUE, !.log = Append(@, [ev |-> "panic", why |-> why])]

\* The schema the flag self.introspecting selects.
ActiveSchema(self) == IF self.introspecting THEN self.introspection_schema ELSE self.schema

(***************************************************************************)
(* Resolvers.  The user resolver is whatever QueryOptions carries; it is   *)
(* modelled by a data profile: what it answers for each field name.  The   *)
(* introspection resolver answers from a fixed description of the schema.  *)
(***************************************************************************)
\* Resolver::resolve_object / resolve_objects: the profile's value for the field.
ResolverAnswer(table, field_name) ==
    IF field_name \in DOMAIN table THEN table[field_name] ELSE Null

\* Resolver::resolve_scalar_value / resolve_enum_value (and the list forms):
\* the parent object's sub-field as it is, Null when the parent has none.
ResolverLeaf(maybe_value) == IF maybe_value.some THEN maybe_value.x ELSE Null

\* One call of a resolver capability: which resolver is called is decided
\* by self.introspecting at this moment; the call is logged.
CallResolver(self, cap, object_value, field, answer) ==
    [r |-> Ok(answer),
     self |-> Logged(self, [ev |-> "call",
                            resolver |-> IF self.introspecting THEN "introspection" ELSE "user",
                            cap |-> cap, name |-> field.name, position |-> field.position,
                            object_value |-> object_value])]

\* resolve_object or resolve_objects that always goes to the user resolver.
CallUserResolveObject(self, cap, object_value, field, argument_values) ==
    [r |-> Ok(ResolverAnswer(IF cap = "resolve_object" THEN self.resolver.object
                             ELSE self.resolver.objects,
                             field.name)),
     self |-> Logged(self, [ev |-> "call", resolver |-> "user",
                            cap |-> cap, name |-> field.name, position |-> field.position,
                            object_value |-> object_value, arguments |-> argument_values])]

\* resolve_object or resolve_objects of the active resolver.
CallResolveObject(self, cap, object_value, field, argument_values) ==
    [r |-> Ok(ResolverAnswer(IF self.introspecting
                             THEN (IF cap = "resolve_object" THEN self.introspection_resolver.object
                                   ELSE self.introspection_resolver.objects)
                             ELSE (IF cap = "resolve_object" THEN self.resolver.object
                                   ELSE self.resolver.objects),
                             field.name)),
     self |-> Logged(self, [ev |-> "call",
                            resolver |-> IF self.introspecting THEN "introspection" ELSE "user",
                            cap |-> cap, name |-> field.name, position |-> field.position,
                            object_value |-> object_value, arguments |-> argument_values])]

(***************************************************************************)
(* Execution::does_fragment_type_apply                                     *)
(***************************************************************************)
\* does_fragment_type_apply that takes every union and every interface to
\* apply.
does_fragment_type_apply_abstract(self, object_type, fragment_type) ==
    LET named_type == get_named_type(ActiveSchema(self), fragment_type)
    IN  IF ~named_type.some THEN FALSE
        ELSE IF named_type.x.kind = "Object" THEN object_type = named_type.x
        ELSE named_type.x.kind \in {"Interface", "Union"}

does_fragment_type_apply(self, object_type, fragment_type) ==
    LET named_type == get_named_type(ActiveSchema(self), fragment_type)
    IN  IF ~named_type.some THEN FALSE
        ELSE CASE named_type.x.kind = "Object" -> object_type = named_type.x
               [] named_type.x.kind = "Interface" ->
                    \E i \in 1..Len(object_type.implements_interfaces) :
                        object_type.implements_interfaces[i] = named_type.x.name
               [] named_type.x.kind = "Union" ->
                    \E i \in 1..Len(named_type.x.types) :
                        named_type.x.types[i] = object_type.name
               [] OTHER -> FALSE

(***************************************************************************)
(* Execution::collect_fields                                               *)
(*                                                                         *)
(* The grouped field set is an IndexMap: a sequence of [key, fields]       *)
(* records in insertion order.  The result also lists, in order, the       *)
(* fragments the call tree expanded.                                       *)
(***************************************************************************)
IndexContains(grouped, key) == \E i \in 1..Len(grouped) : grouped[i].key = key

\* entry(key).or_insert(vec![]).append(fields)
IndexAppend(grouped, key, fields) ==
    IF IndexContains(grouped, key)
    THEN [i \in 1..Len(grouped) |->
            IF grouped[i].key = key
            THEN [key |-> key, fields |-> grouped[i].fields \o fields]
            ELSE grouped[i]]
    ELSE Append(grouped, [key |-> key, fields |-> fields])

RECURSIVE IndexMerge(_, _)
IndexMerge(grouped, fragment_groups) ==
    IF fragment_groups = <<>> THEN grouped
    ELSE IndexMerge(IndexAppend(grouped, Head(fragment_groups).key, Head(fragment_groups).fields),
                    Tail(fragment_groups))

\* A visit that leaves no mark in the set.
mark_visited_forgetful(visited_fragments, fragment_name) == visited_fragments

\* visited_fragments.insert(spread.fragment_name.clone())
mark_visited(visited_fragments, fragment_name) ==
    visited_fragments \cup {fragment_name}

RECURSIVE collect_fields(_, _, _, _)
RECURSIVE collect_selections(_, _, _, _, _, _, _)

\* The loop of collect_fields over the filtered selections, from the i-th on.
collect_selections(self, object_type, selections, i, visited_fragments, grouped_fields, expanded) ==
    IF i > Len(selections)
    THEN [groups |-> grouped_fields, panicked |-> FALSE, expanded |-> expanded]
    ELSE LET selection == selections[i]
         IN  CASE selection.sel = "Field" ->
                    collect_selections(self, object_type, selections, i + 1, visited_fragments,
                        IndexAppend(grouped_fields, get_response_key(selection), <<selection>>),
                        expanded)
               [] selection.sel = "FragmentSpread" ->
                    IF selection.fragment_name \in visited_fragments
                    THEN collect_selections(self, object_type, selections, i + 1,
                                            visited_fragments, grouped_fields, expanded)
                    ELSE LET visited == mark_visited(visited_fragments, selection.fragment_name)
                             fragment == get_fragment(self.document, selection.fragment_name)
                         IN  IF fragment.some
                                /\ does_fragment_type_apply(self, object_type, fragment.x.type_condition)
                             THEN LET inner == collect_fields(self, object_type,
                                                   fragment.x.selection_set, Some(visited))
                                      here == Append(expanded, selection.fragment_name)
                                  IN  IF inner.panicked
                                      THEN [groups |-> grouped_fields, panicked |-> TRUE,
                                            expanded |-> here \o inner.expanded]
                                      ELSE collect_selections(self, object_type, selections, i + 1,
                                               visited, IndexMerge(grouped_fields, inner.groups),
                                               here \o inner.expanded)
                             ELSE collect_selections(self, object_type, selections, i + 1,
                                                     visited, grouped_fields, expanded)
               [] OTHER ->
                    \* q::Selection::InlineFragment(_) => unimplemented!()
                    [groups |-> grouped_fields, panicked |-> TRUE, expanded |-> expanded]

collect_fields(self, object_type, selection_set, visited_fragments) ==
    collect_selections(self, object_type,
        SelectSeq(selection_set.items, LAMBDA sel : ~skip_selection(sel) /\ include_selection(sel)),
        1,
        IF visited_fragments.some THEN visited_fragments.x ELSE {},
        <<>>, <<>>)

(***************************************************************************)
(* Execution::get_field_type                                               *)
(***************************************************************************)
get_field_type(self, object_type, name) ==
    LET root == get_root_query_type(self.introspection_schema)
        meta == IF Some(object_type) = get_root_query_type(self.schema) /\ root.some
                THEN sast_get_field_type(root.x, name)
                ELSE None
        own == sast_get_field_type(object_type, name)
    IN  IF meta.some THEN Some(<<meta.x, TRUE>>)
        ELSE IF own.some THEN Some(<<own.x, self.introspecting>>)
        ELSE None

(***************************************************************************)
(* values::coercion::coerce_value and Execution::coerce_argument_value(s)  *)
(***************************************************************************)
RECURSIVE coerce_value(_, _, _)
RECURSIVE coerce_list_items(_, _, _)

\* The items of a list literal coerced in order; None when one of them fails.
coerce_list_items(items, ty, schema) ==
    IF items = <<>> THEN Some(<<>>)
    ELSE LET first == coerce_value(Head(items), ty, schema)
             rest == coerce_list_items(Tail(items), ty, schema)
         IN  IF first.some /\ rest.some THEN Some(<<first.x>> \o rest.x) ELSE None

\* Type-directed coercion of a literal; the named types are resolved through
\* the given (active) schema.  None is a coercion failure.
coerce_value(value, ty, schema) ==
    CASE ty.k = "NonNullType" ->
            IF value = Null THEN None ELSE coerce_value(value, ty.of, schema)
      [] ty.k = "ListType" ->
            IF value = Null THEN Some(Null)
            ELSE IF value.t = "List"
                 THEN LET items == coerce_list_items(value.items, ty.of, schema)
                      IN  IF items.some THEN Some(ListV(items.x)) ELSE None
                 ELSE None
      [] OTHER ->
            LET named_type == get_named_type(schema, ty.name)
            IN  IF value = Null THEN Some(Null)
                ELSE IF ~named_type.some THEN None
                ELSE CASE named_type.x.kind = "Scalar" ->
                            IF value.t = named_type.x.name THEN Some(value) ELSE None
                       [] named_type.x.kind = "Enum" ->
                            IF /\ value.t = "Enum"
                               /\ \E i \in 1..Len(named_type.x.values) :
                                      named_type.x.values[i] = value.v
                            THEN Some(value)
                            ELSE None
                       [] OTHER -> None

\* Execution::coerce_argument_value
coerce_argument_value(self, field, argument, value) ==
    LET coerced == coerce_value(value, argument.value_type, ActiveSchema(self))
    IN  IF coerced.some THEN Ok(coerced.x)
        ELSE Err([e |-> "InvalidArgumentError", position |-> field.position,
                  name |-> argument.name, value |-> value])

\* HashMap::insert on the coerced values (a function from names to values).
MapInsert(map, key, value) ==
    [n \in DOMAIN map \cup {key} |-> IF n = key THEN value ELSE map[n]]

EmptyMap == [n \in {} |-> Null]

\* The None branch that leaves out every argument without a default, the
\* required ones too.
coerce_missing_argument_lenient(field, argument_def, coerced_values) ==
    IF argument_def.default_value.some
    THEN Ok(MapInsert(coerced_values, argument_def.name, argument_def.default_value.x))
    ELSE Ok(coerced_values)

\* The None branch of coerce_argument_values: "There is no value, either use
\* the default or fail".
coerce_missing_argument(field, argument_def, coerced_values) ==
    IF argument_def.default_value.some
    THEN Ok(MapInsert(coerced_values, argument_def.name, argument_def.default_value.x))
    ELSE IF argument_def.value_type.k = "NonNullType"
    THEN Err([e |-> "MissingArgumentError", position |-> field.position,
              name |-> argument_def.name])
    ELSE Ok(coerced_values)

RECURSIVE coerce_arguments(_, _, _, _, _)

\* The loop of coerce_argument_values over the argument definitions.
coerce_arguments(self, field, argument_definitions, i, coerced_values) ==
    IF i > Len(argument_definitions)
    THEN [r |-> Ok(coerced_values), panicked |-> FALSE]
    ELSE LET argument_def == argument_definitions[i]
             given == get_argument_value(field.arguments, argument_def.name)
         IN  IF given.some /\ given.x.t = "Variable"
             THEN \* Some(q::Value::Variable(_)) => unimplemented!()
                  [r |-> Ok(coerced_values), panicked |-> TRUE]
             ELSE IF ~given.some
             THEN LET missing == coerce_missing_argument(field, argument_def, coerced_values)
                  IN  IF missing.ok
                      THEN coerce_arguments(self, field, argument_definitions, i + 1, missing.v)
                      ELSE [r |-> missing, panicked |-> FALSE]
             ELSE LET coerced == coerce_argument_value(self, field, argument_def, given.x)
                  IN  IF coerced.ok
                      THEN coerce_arguments(self, field, argument_definitions, i + 1,
                               MapInsert(coerced_values, argument_def.name, coerced.v))
                      ELSE [r |-> coerced, panicked |-> FALSE]

\* Execution::coerce_argument_values
coerce_argument_values(self, object_type, field) ==
    LET argument_definitions == get_argument_definitions(object_type, field.name)
    IN  IF argument_definitions.some
        THEN coerce_arguments(self, field, argument_definitions.x, 1, EmptyMap)
        ELSE [r |-> Ok(EmptyMap), panicked |-> FALSE]

(***************************************************************************)
(* Execution::resolve_field_value and its two helpers                      *)
(***************************************************************************)
\* o.get(&field.name) on the parent value, for Some(q::Value::Object(o)).
ParentField(object_value, field) == BTreeGet(object_value.x.entries, field.name)

IsSomeObject(object_value) == object_value.some /\ object_value.x.t = "Object"

\* Execution::resolve_field_value_for_named_type
resolve_field_value_for_named_type(self, object_value, field, field_definition, type_name, argument_values) ==
    LET named_type == get_named_type(ActiveSchema(self), type_name)
    IN  IF ~named_type.some
        THEN [r |-> Err([e |-> "NamedTypeError", name |-> type_name]), self |-> self]
        ELSE CASE named_type.x.kind = "Object" ->
                    CallResolveObject(self, "resolve_object", object_value, field, argument_values)
               [] named_type.x.kind = "Enum" ->
                    IF IsSomeObject(object_value)
                    THEN CallResolver(self, "resolve_enum_value", object_value, field,
                                      ResolverLeaf(ParentField(object_value, field)))
                    ELSE [r |-> Ok(Null), self |-> self]
               [] named_type.x.kind = "Scalar" ->
                    IF IsSomeObject(object_value)
                    THEN CallResolver(self, "resolve_scalar_value", object_value, field,
                                      ResolverLeaf(ParentField(object_value, field)))
                    ELSE [r |-> Ok(Null), self |-> self]
               [] OTHER ->
                    \* Interface, Union and the rest: unimplemented!()
                    [r |-> Ok(Null), self |-> Panicked(self, "resolve_field_value_for_named_type")]

RECURSIVE resolve_field_value_for_list_type(_, _, _, _, _, _, _)
resolve_field_value_for_list_type(self, object_type, object_value, field, field_definition, inner_type, argument_values) ==
    CASE inner_type.k = "NonNullType" ->
            resolve_field_value_for_list_type(self, object_type, object_value, field,
                field_definition, inner_type.of, argument_values)
      [] inner_type.k = "NamedType" ->
            LET named_type == get_named_type(ActiveSchema(self), inner_type.name)
            IN  IF ~named_type.some
                THEN \* .expect("Failed to resolve named type inside list type")
                     [r |-> Ok(Null), self |-> Panicked(self, "resolve_field_value_for_list_type")]
                ELSE CASE named_type.x.kind = "Object" ->
                            CallResolveObject(self, "resolve_objects", object_value, field,
                                              argument_values)
                       [] named_type.x.kind = "Enum" ->
                            IF IsSomeObject(object_value)
                            THEN CallResolver(self, "resolve_enum_values", object_value, field,
                                              ResolverLeaf(ParentField(object_value, field)))
                            ELSE [r |-> Ok(Null), self |-> self]
                       [] named_type.x.kind = "Scalar" ->
                            IF IsSomeObject(object_value)
                            THEN CallResolver(self, "resolve_scalar_values", object_value, field,
                                              ResolverLeaf(ParentField(object_value, field)))
                            ELSE [r |-> Ok(Null), self |-> self]
                       [] OTHER ->
                            [r |-> Ok(Null),
                             self |-> Panicked(self, "resolve_field_value_for_list_type")]
      [] OTHER ->
            \* s::Type::ListType(_) => unimplemented!(): no nested lists
            [r |-> Ok(Null), self |-> Panicked(self, "resolve_field_value_for_list_type")]

RECURSIVE resolve_field_value(_, _, _, _, _, _, _)
resolve_field_value(self, object_type, object_value, field, field_definition, field_type, argument_values) ==
    CASE field_type.k = "NonNullType" ->
            resolve_field_value(self, object_type, object_value, field, field_definition,
                                field_type.of, argument_values)
      [] field_type.k = "NamedType" ->
            resolve_field_value_for_named_type(self, object_value, field, field_definition,
                                               field_type.name, argument_values)
      [] OTHER ->
            resolve_field_value_for_list_type(self, object_type, object_value, field,
                                              field_definition, field_type.of, argument_values)

(***************************************************************************)
(* Execution::merge_selection_sets (the span is not modelled)              *)
(***************************************************************************)
RECURSIVE merge_items(_)
merge_items(fields) ==
    IF fields = <<>> THEN <<>>
    ELSE Head(fields).selection_set.items \o merge_items(Tail(fields))

\* merge_selection_sets that keeps the first node's sub-selection only.
merge_first_only(fields) == SelectionSet(fields[1].selection_set.items)

merge_selection_sets(fields) == SelectionSet(merge_items(fields))

(***************************************************************************)
(* Execution::resolve_abstract_type: always asks self.resolver, with the   *)
(* schema the flag selects.  The profile names the object type it answers. *)
(***************************************************************************)
\* A resolution that falls back on the User type when the resolver has no
\* answer.
resolve_abstract_type_or_user(self, abstract_type, object_value) ==
    LET answer == IF self.resolver.abstract = "" THEN None
                  ELSE get_named_type(ActiveSchema(self), self.resolver.abstract)
        called == Logged(self, [ev |-> "call", resolver |-> "user",
                                cap |-> "resolve_abstract_type",
                                name |-> get_type_name(abstract_type),
                                object_value |-> Some(object_value)])
    IN  IF answer.some /\ answer.x.kind = "Object"
        THEN [r |-> Ok(answer.x), self |-> called]
        ELSE [r |-> Ok(get_named_type(ActiveSchema(self), "User").x), self |-> called]

resolve_abstract_type(self, abstract_type, object_value) ==
    LET answer == IF self.resolver.abstract = "" THEN None
                  ELSE get_named_type(ActiveSchema(self), self.resolver.abstract)
        called == Logged(self, [ev |-> "call", resolver |-> "user",
                                cap |-> "resolve_abstract_type",
                                name |-> get_type_name(abstract_type),
                                object_value |-> Some(object_value)])
    IN  IF answer.some /\ answer.x.kind = "Object"
        THEN [r |-> Ok(answer.x), self |-> called]
        ELSE [r |-> Err([e |-> "AbstractTypeError", name |-> get_type_name(abstract_type)]),
              self |-> called]

(***************************************************************************)
(* Execution::complete_value, execute_field, execute_selection_set         *)
(***************************************************************************)
\* The positions of the field nodes on the field stack.
StackPositions(fields) == [i \in 1..Len(fields) |-> fields[i].position]

RECURSIVE complete_value(_, _, _, _, _)
RECURSIVE complete_list(_, _, _, _, _, _, _)
RECURSIVE execute_field(_, _, _, _, _, _)
RECURSIVE execute_selection_set(_, _, _, _)
RECURSIVE execute_groups(_, _, _, _, _, _)

\* A loop that leaves out the elements that fail and returns the rest.
complete_list_partial(self, field, inner_type, fields, values, i, out) ==
    IF i > Len(values) THEN [r |-> Ok(ListV(out)), self |-> self]
    ELSE LET item == complete_value(self, field, inner_type, fields, values[i])
         IN  IF item.self.panicked THEN item
             ELSE complete_list(item.self, field, inner_type, fields, values, i + 1,
                                IF item.r.ok THEN Append(out, item.r.v) ELSE out)

\* The loop of complete_value over the values of a list, from the i-th on;
\* the first element that fails ends it (the ? operator).
complete_list(self, field, inner_type, fields, values, i, out) ==
    IF i > Len(values) THEN [r |-> Ok(ListV(out)), self |-> self]
    ELSE LET item == complete_value(self, field, inner_type, fields, values[i])
         IN  IF item.self.panicked \/ ~item.r.ok THEN item
             ELSE complete_list(item.self, field, inner_type, fields, values, i + 1,
                                Append(out, item.r.v))

\* complete_non_null without the Null check: the inner value passes through.
complete_non_null_unchecked(self, field, field_type, fields, resolved_value) ==
    LET inner == complete_value(self, field, field_type.of, fields, resolved_value)
    IN  IF inner.self.panicked \/ ~inner.r.ok THEN inner
        ELSE [r |-> inner.r,
              self |-> Logged(inner.self,
                          [ev |-> "non_null", position |-> field.position,
                           name |-> field.name, field_type |-> field_type,
                           completed |-> inner.r.v])]

\* The NonNullType branch of complete_value: the inner type is completed
\* first (the ? operator passes its failure on); Null is then an error.
complete_non_null(self, field, field_type, fields, resolved_value) ==
    LET inner == complete_value(self, field, field_type.of, fields, resolved_value)
    IN  IF inner.self.panicked \/ ~inner.r.ok THEN inner
        ELSE LET seen == Logged(inner.self,
                             [ev |-> "non_null", position |-> field.position,
                              name |-> field.name, field_type |-> field_type,
                              completed |-> inner.r.v])
             IN  IF inner.r.v = Null
                 THEN [r |-> Err([e |-> "NonNullError", position |-> field.position,
                                  name |-> field.name]),
                       self |-> seen]
                 ELSE [r |-> inner.r, self |-> seen]

complete_value(self, field, field_type, fields, resolved_value) ==
    IF field_type.k = "NonNullType"
    THEN complete_non_null(self, field, field_type, fields, resolved_value)
    ELSE IF resolved_value = Null THEN [r |-> Ok(resolved_value), self |-> self]
    ELSE IF field_type.k = "ListType"
    THEN IF resolved_value.t = "List"
         THEN complete_list(self, field, field_type.of, fields, resolved_value.items, 1, <<>>)
         ELSE [r |-> Err([e |-> "ListValueError", position |-> field.position,
                          name |-> field.name]),
               self |-> self]
    ELSE LET named_type == get_named_type(ActiveSchema(self), field_type.name)
         IN  IF ~named_type.some
             THEN \* sast::get_named_type(..).unwrap()
                  [r |-> Ok(Null), self |-> Panicked(self, "complete_value")]
             ELSE CASE named_type.x.kind \in {"Scalar", "Enum"} ->
                         [r |-> Ok(resolved_value), self |-> self]
                    [] named_type.x.kind = "Object" ->
                         LET done == execute_selection_set(self, merge_selection_sets(fields),
                                                           named_type.x, Some(resolved_value))
                         IN  [r |-> Ok(done.v), self |-> done.self]
                    [] named_type.x.kind \in {"Interface", "Union"} ->
                         LET object_type == resolve_abstract_type(self, named_type.x, resolved_value)
                         IN  IF ~object_type.r.ok THEN object_type
                             ELSE LET done == execute_selection_set(object_type.self,
                                                  merge_selection_sets(fields),
                                                  object_type.r.v, Some(resolved_value))
                                  IN  [r |-> Ok(done.v), self |-> done.self]
                    [] OTHER ->
                         [r |-> Ok(Null), self |-> Panicked(self, "complete_value")]

execute_field(self, object_type, object_value, field, field_definition, fields) ==
    LET resolved(value) ==
            IF value.self.panicked \/ ~value.r.ok THEN value
            ELSE complete_value(value.self, field, field_definition.field_type, fields,
                                value.r.v)
        coerced(argument_values) ==
            IF argument_values.panicked
            THEN [r |-> Ok(Null), self |-> Panicked(self, "coerce_argument_values")]
            ELSE IF ~argument_values.r.ok THEN [r |-> argument_values.r, self |-> self]
            ELSE resolved(resolve_field_value(self, object_type, object_value, field,
                              field_definition, field_definition.field_type,
                              argument_values.r.v))
    IN  coerced(coerce_argument_values(self, object_type, field))

\* The match on what execute_field returned: the value that is inserted at
\* the response key ...
field_value(r) == IF r.ok THEN r.v ELSE Null

\* A failure that is reported unless an equal error is in the list.
field_errors_deduplicated(r, errors) ==
    IF r.ok \/ (\E n \in 1..Len(errors) : errors[n] = r.e) THEN errors
    ELSE Append(errors, r.e)

\* ... and the error list after it: Err(e) => self.errors.push(e).
field_errors(r, errors) == IF r.ok THEN errors ELSE Append(errors, r.e)

\* A pop that is left out when the field failed.
pop_field_on_ok(r, fields) == IF r.ok THEN SubSeq(fields, 1, Len(fields) - 1) ELSE fields

\* self.fields.pop() after the match on the field's result, for Ok and Err
\* alike.
pop_field(r, fields) == SubSeq(fields, 1, Len(fields) - 1)

\* A group without a field definition that is given Null at its key.
undefined_field_as_null(result_map, response_key) ==
    BTreeInsert(result_map, response_key, Null)

\* The result map after a group whose field get_field_type does not find:
\* the if let has no else, the map stays as it is.
undefined_field(result_map, response_key) == result_map

\* The loop of execute_selection_set over the grouped field set, from the
\* i-th group on.
execute_groups(self, grouped_field_set, i, object_type, object_value, result_map) ==
    IF i > Len(grouped_field_set) THEN [result_map |-> result_map, self |-> self]
    ELSE LET response_key == grouped_field_set[i].key
             fields == grouped_field_set[i].fields
             found == get_field_type(self, object_type, fields[1].name)
         IN  IF ~found.some
             THEN execute_groups(self, grouped_field_set, i + 1, object_type, object_value,
                                 undefined_field(result_map, response_key))
             ELSE LET field_def == found.x[1]
                      pushed == [self EXCEPT !.fields = Append(@, fields[1]),
                                             !.introspecting = found.x[2]]
                      entered == Logged(pushed,
                                     [ev |-> "dispatch", key |-> response_key,
                                      name |-> fields[1].name,
                                      position |-> fields[1].position,
                                      object_type |-> object_type.name,
                                      introspecting |-> pushed.introspecting,
                                      fields |-> StackPositions(pushed.fields)])
                      left(executed, after, value, errors) ==
                          Logged([after EXCEPT !.errors = errors,
                                               !.fields = pop_field(executed.r, @)],
                                 [ev |-> "field", key |-> response_key,
                                  name |-> fields[1].name,
                                  position |-> fields[1].position,
                                  field_type |-> field_def.field_type,
                                  r |-> executed.r,
                                  value |-> value,
                                  errors_before |-> Len(after.errors),
                                  errors_after |-> Len(errors),
                                  fields |-> StackPositions(after.fields)])
                      inserted(executed, after, value, errors) ==
                          IF after.panicked THEN [result_map |-> result_map, self |-> after]
                          ELSE execute_groups(left(executed, after, value, errors),
                                   grouped_field_set, i + 1, object_type, object_value,
                                   BTreeInsert(result_map, response_key, value))
                      matched(executed) ==
                          inserted(executed, executed.self, field_value(executed.r),
                                   field_errors(executed.r, executed.self.errors))
                  IN  matched(execute_field(entered, object_type, object_value, fields[1],
                                            field_def, fields))

\* The wrapping that makes an Object value of every result map.
wrap_any_result_map(result_map) == ObjectV(result_map)

\* The end of execute_selection_set: "If we have result data, wrap it in an
\* output object", otherwise the value is Null.
wrap_result_map(result_map) ==
    IF result_map = <<>> THEN Null ELSE ObjectV(result_map)

execute_selection_set(self, selection_set, object_type, object_value) ==
    LET returned(done, v) ==
            IF done.self.panicked THEN [v |-> Null, self |-> done.self]
            ELSE [v |-> v,
                  self |-> Logged(done.self,
                             [ev |-> "selection_set_done",
                              object_type |-> object_type.name, v |-> v,
                              fields |-> StackPositions(done.self.fields)])]
        executed(done) == returned(done, wrap_result_map(done.result_map))
        collected(grouped_field_set, entered) ==
            IF grouped_field_set.panicked
            THEN [v |-> Null, self |-> Panicked(entered, "collect_fields")]
            ELSE executed(execute_groups(entered, grouped_field_set.groups, 1, object_type,
                                         object_value, <<>>))
        grouped(grouped_field_set) ==
            collected(grouped_field_set,
                Logged(self, [ev |-> "execute_selection_set",
                              object_type |-> object_type.name,
                              selection_set |-> selection_set,
                              object_value |-> object_value,
                              introspecting |-> self.introspecting,
                              groups |-> grouped_field_set.groups,
                              expanded |-> grouped_field_set.expanded,
                              fields |-> StackPositions(self.fields)]))
    IN  grouped(collect_fields(self, object_type, selection_set, None))

(***************************************************************************)
(* query::execute_root_selection_set and query::execute_query              *)
(***************************************************************************)
\* QueryResult::new, From<ExecutionError> for QueryResult
QueryResult(value, errors) == [kind |-> "QueryResult", value |-> value, errors |-> errors]
\* A conversion that drops the error.
QueryResultWithoutError(e) == QueryResult(Null, <<>>)

\* impl From<ExecutionError> for QueryResult
QueryResultFrom(e) == QueryResult(Null, <<e>>)
\* The call did not return: the thread panicked.
Aborted == [kind |-> "panic"]

\* The description of a type that the introspection resolver hands out.
TypeObject(type_definition) ==
    ObjectV(<< <<"kind", EnumV(type_definition.kind)>>,
               <<"name", StringV(type_definition.name)>> >>)

\* IntrospectionResolver::new(&logger, &query.schema): answers about the
\* schema it was built from.
IntrospectionResolver(schema) ==
    [object |->
        [__schema |-> ObjectV(<< <<"name", StringV("schema")>> >>),
         __type |-> IF get_named_type(schema, "User").some
                    THEN TypeObject(get_named_type(schema, "User").x) ELSE Null,
         queryType |-> IF get_root_query_type(schema).some
                       THEN TypeObject(get_root_query_type(schema).x) ELSE Null],
     objects |->
        [types |-> ListV([i \in 1..Len(schema.definitions) |->
                             TypeObject(schema.definitions[i])])]]

\* introspection_schema(): the fixed meta-schema.
IntrospectionSchema ==
    [definitions |-> <<
        ScalarType("String"),
        EnumType("__TypeKind", <<"Scalar", "Object", "Interface", "Union", "Enum">>),
        ObjectType("Query", <<>>, <<
            Field("__schema", NonNullType(NamedType("__Schema")), <<>>),
            Field("__type", NamedType("__Type"),
                  << InputValue("name", NonNullType(NamedType("String")), None) >>) >>),
        ObjectType("__Schema", <<>>, <<
            Field("queryType", NonNullType(NamedType("__Type")), <<>>),
            Field("types", NonNullType(ListType(NonNullType(NamedType("__Type")))), <<>>) >>),
        ObjectType("__Type", <<>>, <<
            Field("kind", NonNullType(NamedType("__TypeKind")), <<>>),
            Field("name", NamedType("String"), <<>>) >>) >>]

\* The fresh execution context of execute_root_selection_set.
NewExecution(q, options) ==
    [schema |-> q.schema,
     introspection_schema |-> IntrospectionSchema,
     document |-> q.document,
     resolver |-> options,
     introspection_resolver |-> IntrospectionResolver(q.schema),
     introspecting |-> FALSE,
     fields |-> <<>>,
     errors |-> <<>>,
     log |-> <<>>,
     panicked |-> FALSE]

execute_root_selection_set(q, options, selection_set, initial_value) ==
    LET execution == NewExecution(q, options)
        root == get_root_query_type(execution.schema)
    IN  IF root.some
        THEN LET returned(done) ==
                     [result |-> IF done.self.panicked THEN Aborted
                                 ELSE QueryResult(done.v, done.self.errors),
                      self |-> done.self]
             IN  returned(execute_selection_set(execution, selection_set, root.x,
                                                initial_value))
        ELSE [result |-> QueryResultFrom([e |-> "NoRootQueryObjectType"]),
              self |-> execution]

execute_query(q, options) ==
    LET operation == get_operation(q.document)
    IN  IF ~operation.ok
        THEN [result |-> QueryResultFrom(operation.e), self |-> NewExecution(q, options)]
        ELSE IF operation.v.kind \in {"Query", "SelectionSet"}
        THEN execute_root_selection_set(q, options, operation.v.selection_set, None)
        ELSE [result |-> QueryResultFrom([e |-> "NotSupported",
                                          name |-> "Only queries are supported"]),
              self |-> NewExecution(q, options)]

(***************************************************************************)
(* Inputs: schemas                                                         *)
(***************************************************************************)
\* scalar String  type Query { name: String }
SimpleSchema ==
    [definitions |-> <<
        ScalarType("String"),
        ObjectType("Query", <<>>, << Field("name", NamedType("String"), <<>>) >>) >>]

UserType ==
    ObjectType("User", <<"Node">>, <<
        Field("id", NamedType("String"), <<>>),
        Field("name", NamedType("String"), <<>>),
        Field("nick", NonNullType(NamedType("String")), <<>>),
        Field("role", NamedType("Role"), <<>>),
        Field("tags", ListType(NamedType("String")), <<>>),
        Field("friend", NamedType("User"), <<>>) >>)

\* A schema with every kind of type and of field type the engine handles.
RichSchema ==
    [definitions |-> <<
        ScalarType("String"),
        ScalarType("Int"),
        EnumType("Role", <<"ADMIN", "USER">>),
        InterfaceType("Node", << Field("id", NamedType("String"), <<>>) >>),
        InterfaceType("Pet", << Field("name", NamedType("String"), <<>>) >>),
        UnionType("Thing", <<"Item", "User">>),
        UnionType("Other", <<"Item">>),
        ObjectType("Item", <<>>, << Field("name", NamedType("String"), <<>>) >>),
        UserType,
        ObjectType("Query", <<>>, <<
            Field("name", NamedType("String"), <<>>),
            Field("user", NamedType("User"),
                  << InputValue("id", NonNullType(NamedType("Int")), None),
                     InputValue("first", NamedType("Int"), Some(IntV("10"))) >>),
            Field("me", NonNullType(NamedType("User")), <<>>),
            Field("users", ListType(NonNullType(NamedType("User"))), <<>>),
            Field("node", NamedType("Node"), <<>>),
            Field("ghost", NamedType("Ghost"), <<>>),
            Field("ghosts", ListType(NamedType("Ghost")), <<>>) >>) >>]

\* A schema without a root Query type.
NoQuerySchema ==
    [definitions |-> << ScalarType("String"), UserType >>]

(***************************************************************************)
(* Inputs: user resolvers                                                  *)
(***************************************************************************)
Jordi ==
    ObjectV(<< <<"id", StringV("1")>>, <<"name", StringV("Jordi")>>,
               <<"nick", StringV("J")>>, <<"role", EnumV("ADMIN")>>,
               <<"tags", ListV(<<StringV("a"), StringV("b")>>)>> >>)

\* A user without a nick (nick is declared String!).
Anon == ObjectV(<< <<"name", StringV("Anon")>>, <<"tags", StringV("a")>> >>)

\* A store in which everything asked for is found.
FullResolver ==
    [object |-> [name |-> Jordi, user |-> Jordi, me |-> Jordi, friend |-> Anon],
     objects |-> [users |-> ListV(<<Jordi, Jordi>>)],
     abstract |-> "User"]

\* A store with gaps: no me, users with missing parts, no friends.
SparseResolver ==
    [object |-> [name |-> Jordi, user |-> Anon, me |-> Null, friend |-> Null],
     objects |-> [users |-> ListV(<<Anon, Anon, Null, Anon>>)],
     abstract |-> ""]

Resolvers == {FullResolver, SparseResolver}

(***************************************************************************)
(* Inputs: documents.  A document is one operation whose root selection    *)
(* set is a sequence of at most MaxSel selections, each one of the shapes  *)
(* below, plus a fixed set of fragment definitions.  The i-th root         *)
(* selection sits on line i; the fragments sit on lines 101 and up.        *)
(***************************************************************************)
\* A field node without alias, arguments and directives.
Leaf(name, pos) == FieldNode(None, name, <<>>, <<>>, <<>>, pos)
Node(name, args, items, pos) == FieldNode(None, name, args, <<>>, items, pos)

Fragments ==
    << FragmentDefinition("UserFrag", "User", << Leaf("nick", Pos(101, 1)) >>),
       FragmentDefinition("QueryFrag", "Query",
           << Leaf("name", Pos(102, 1)),
              Node("me", <<>>, << Leaf("name", Pos(102, 3)) >>, Pos(102, 2)) >>),
       FragmentDefinition("CycA", "Query",
           << FieldNode(Some("z"), "name", <<>>, <<>>, <<>>, Pos(103, 1)),
              FragmentSpread("CycB") >>),
       FragmentDefinition("CycB", "Query",
           << FragmentSpread("CycA"),
              FieldNode(Some("b"), "name", <<>>, <<>>, <<>>, Pos(104, 1)) >>),
       FragmentDefinition("Outer", "Query", << FragmentSpread("QueryFrag") >>),
       FragmentDefinition("NodeFrag", "Node", << Leaf("id", Pos(106, 1)) >>),
       FragmentDefinition("PetFrag", "Pet", << Leaf("role", Pos(107, 1)) >>),
       FragmentDefinition("ThingFrag", "Thing", << Leaf("name", Pos(108, 1)) >>),
       FragmentDefinition("OtherFrag", "Other", << Leaf("tags", Pos(109, 1)) >>),
       FragmentDefinition("MetaFrag", "Query",
           << Node("__schema", <<>>,
                   << Node("types", <<>>, << Leaf("name", Pos(110, 3)) >>, Pos(110, 2)) >>,
                   Pos(110, 1)) >>) >>

\* The numbers of the shapes of a root selection.
Shapes == 1..23

\* The k-th shape of a root selection, placed on line i.
SelectionAt(k, i) ==
    CASE k = 1 -> Leaf("name", Pos(i, 1))
      [] k = 2 -> Leaf("missing", Pos(i, 1))
      [] k = 3 -> Node("__schema", <<>>,
                       << Node("queryType", <<>>, << Leaf("name", Pos(i, 3)) >>, Pos(i, 2)) >>,
                       Pos(i, 1))
      [] k = 4 -> Node("__type", << <<"name", StringV("User")>> >>,
                       << Leaf("name", Pos(i, 2)), Leaf("kind", Pos(i, 3)) >>, Pos(i, 1))
      [] k = 5 -> Node("user", << <<"id", IntV("1")>> >>,
                       << Leaf("name", Pos(i, 2)), Leaf("nick", Pos(i, 3)) >>, Pos(i, 1))
      [] k = 6 -> Node("user", <<>>, << Leaf("name", Pos(i, 2)) >>, Pos(i, 1))
      [] k = 7 -> Node("user", << <<"id", IntV("2")>>, <<"first", IntV("5")>> >>,
                       << Leaf("role", Pos(i, 2)),
                          Node("friend", <<>>, << Leaf("name", Pos(i, 4)) >>, Pos(i, 3)) >>,
                       Pos(i, 1))
      [] k = 8 -> FieldNode(Some("a"), "me", <<>>, <<>>, << Leaf("name", Pos(i, 2)) >>, Pos(i, 1))
      [] k = 9 -> Node("users", <<>>, << Leaf("nick", Pos(i, 2)) >>, Pos(i, 1))
      [] k = 10 -> FragmentSpread("UserFrag")
      [] k = 11 -> FragmentSpread("QueryFrag")
      [] k = 12 -> FragmentSpread("CycA")
      [] k = 13 -> FragmentSpread("Outer")
      [] k = 14 -> InlineFragment("Query", << Leaf("name", Pos(i, 2)) >>)
      [] k = 15 -> Node("user", << <<"id", VariableV("v")>> >>,
                        << Leaf("name", Pos(i, 2)) >>, Pos(i, 1))
      [] k = 16 -> Node("ghost", <<>>, << Leaf("name", Pos(i, 2)) >>, Pos(i, 1))
      [] k = 17 -> Node("ghosts", <<>>, << Leaf("name", Pos(i, 2)) >>, Pos(i, 1))
      [] k = 18 -> Node("node", <<>>, << Leaf("id", Pos(i, 2)) >>, Pos(i, 1))
      [] k = 19 -> FieldNode(None, "name", <<>>, << [name |-> "skip", if |-> TRUE] >>, <<>>,
                             Pos(i, 1))
      [] k = 20 -> Node("user", << <<"id", IntV("1")>> >>,
                        << FragmentSpread("NodeFrag"), FragmentSpread("PetFrag"),
                           FragmentSpread("ThingFrag"), FragmentSpread("OtherFrag"),
                           FragmentSpread("UserFrag"), FragmentSpread("QueryFrag"),
                           Leaf("missing", Pos(i, 2)) >>,
                        Pos(i, 1))
      [] k = 21 -> FragmentSpread("MetaFrag")
      [] k = 22 -> Node("me", <<>>, << Leaf("missing", Pos(i, 2)) >>, Pos(i, 1))
      [] OTHER -> Node("__schema", <<>>, << Leaf("missing", Pos(i, 2)) >>, Pos(i, 1))

\* The sequences of shape numbers of length 1..MaxSel over the given shapes.
ShapeSeqs(shapes) == UNION {[1..n -> shapes] : n \in 1..MaxSel}

RootSelectionSet(ks) == SelectionSet([i \in 1..Len(ks) |-> SelectionAt(ks[i], i)])

Operation(kind, selection_set) == [kind |-> kind, selection_set |-> selection_set]

Document(operations) == [operations |-> operations, fragments |-> Fragments]

\* { ... } documents over the given shapes.
Documents(shapes) ==
    {Document(<< Operation("SelectionSet", RootSelectionSet(ks)) >>) : ks \in ShapeSeqs(shapes)}

\* Documents that differ in their operations, with the root selection { name }.
OperationDocuments ==
    {Document(<< Operation(kind, RootSelectionSet(<<1>>)) >>) :
        kind \in {"Query", "Mutation", "Subscription"}}
    \cup {Document(<<>>),
          Document(<< Operation("Query", RootSelectionSet(<<1>>)),
                      Operation("Query", RootSelectionSet(<<2>>)) >>)}

Query(document, schema) == [document |-> document, schema |-> schema]

Queries ==
    {Query(d, RichSchema) : d \in Documents(Shapes) \cup OperationDocuments}
    \cup {Query(d, SimpleSchema) : d \in Documents({1, 2, 3})}
    \cup {Query(d, NoQuerySchema) : d \in Documents({1})}

(***************************************************************************)
(* The specification of query execution: a query and a resolver arrive,    *)
(* execute_query runs on them.                                             *)
(***************************************************************************)
NoResult == [kind |-> "none"]
NoCoercion == [kind |-> "none"]
NoCompletion == [kind |-> "none"]
NoConnection == [kind |-> "none"]
NoManager == [kind |-> "none"]

Init ==
    /\ pc = "ready"
    /\ query \in Queries
    /\ resolver \in Resolvers
    /\ result = NoResult
    /\ trace = <<>>
    /\ coercion = NoCoercion
    /\ frames = <<>>
    /\ completion = NoCompletion
    /\ conn = NoConnection
    /\ manager = NoManager

ExecuteQuery ==
    /\ pc = "ready"
    /\ \E done \in {execute_query(query, resolver)} :
           /\ result' = done.result
           /\ trace' = done.self.log
    /\ pc' = "done"
    /\ UNCHANGED <<query, resolver, coercion, frames, completion, conn, manager>>

Next == ExecuteQuery

Spec == Init /\ [][Next]_vars

(***************************************************************************)
(* Reading the log of a finished execution                                 *)
(***************************************************************************)
\* execute_query has returned a QueryResult (it did not panic).
Returned == pc = "done" /\ result.kind = "QueryResult"

Events == 1..Len(trace)

\* The name is a root field of the introspection schema (a meta-field).
MetaRootField(name) ==
    sast_get_field_type(get_root_query_type(IntrospectionSchema).x, name).some

\* The i-th event is the dispatch of a field of the root selection set.
RootDispatch(i) == trace[i].ev = "dispatch" /\ Len(trace[i].fields) = 1

\* The "field" event that ends the execution of the field dispatched at i:
\* the first one after i with the same field stack.
FieldEnd(i) ==
    CHOOSE j \in Events :
        /\ j > i /\ trace[j].ev = "field" /\ trace[j].fields = trace[i].fields
        /\ \A k \in (i + 1)..(j - 1) :
               ~(trace[k].ev = "field" /\ trace[k].fields = trace[i].fields)

HasFieldEnd(i) ==
    \E j \in Events : j > i /\ trace[j].ev = "field" /\ trace[j].fields = trace[i].fields

Front(seq) == SubSeq(seq, 1, Len(seq) - 1)

\* The execute_selection_set call the event i (a dispatch or a field event)
\* belongs to: the last one entered before i with the parent's field stack.
Enclosing(i) ==
    CHOOSE j \in Events :
        /\ j < i /\ trace[j].ev = "execute_selection_set"
        /\ trace[j].fields = Front(trace[i].fields)
        /\ \A k \in (j + 1)..(i - 1) :
               ~(trace[k].ev = "execute_selection_set"
                 /\ trace[k].fields = Front(trace[i].fields))

\* The return of the execute_selection_set call that the field event i
\* belongs to: the first selection_set_done after i with the parent's stack.
HasEnclosingDone(i) ==
    \E j \in Events :
        j > i /\ trace[j].ev = "selection_set_done" /\ trace[j].fields = Front(trace[i].fields)

EnclosingDone(i) ==
    CHOOSE j \in Events :
        /\ j > i /\ trace[j].ev = "selection_set_done"
        /\ trace[j].fields = Front(trace[i].fields)
        /\ \A k \in (i + 1)..(j - 1) :
               ~(trace[k].ev = "selection_set_done"
                 /\ trace[k].fields = Front(trace[i].fields))

(***************************************************************************)
(* C1.  Introspection mode entered for a root meta-field ends with that    *)
(* field's subtree: every root field dispatched after a meta-field, and    *)
(* itself not a root field of the introspection schema, is dispatched with *)
(* introspecting = FALSE (user schema, user resolver).                     *)
(* The engine never resets the flag, so this is violated.                  *)
(***************************************************************************)
C1_IntrospectionEndsWithSubtree ==
    pc = "done" =>
        \A i, j \in Events :
            ( /\ i < j
              /\ RootDispatch(i) /\ MetaRootField(trace[i].name)
              /\ RootDispatch(j) /\ ~MetaRootField(trace[j].name) )
            => ~trace[j].introspecting

(***************************************************************************)
(* C2.  A field whose declared type is non-null and whose completed value  *)
(* is Null gets exactly one NonNullError with its position and name, Null  *)
(* at its own response key, and the enclosing object stays an object.      *)
(***************************************************************************)
\* The event i reports that the declared (outermost) non-null type of the
\* field whose execution ends at i + 1 was completed to Null.
NonNullCompletedNull(i) ==
    /\ trace[i].ev = "non_null" /\ trace[i].completed = Null
    /\ i + 1 \in Events /\ trace[i + 1].ev = "field"
    /\ trace[i + 1].position = trace[i].position
    /\ trace[i + 1].field_type = trace[i].field_type

C2_NonNullErrorAtTheField ==
    Returned =>
        \A i \in Events :
            NonNullCompletedNull(i) =>
                LET f == trace[i + 1]
                    e == [e |-> "NonNullError", position |-> f.position, name |-> f.name]
                IN  /\ f.r = Err(e)
                    /\ f.value = Null
                    /\ f.errors_after = f.errors_before + 1
                    /\ result.errors[f.errors_after] = e
                    /\ HasEnclosingDone(i + 1)
                    /\ trace[EnclosingDone(i + 1)].v.t = "Object"
                    /\ BTreeGet(trace[EnclosingDone(i + 1)].v.entries, f.key) = Some(Null)

\* An execution that returned and in which a non-null field completed to Null.
C2_Witness == Returned /\ \E i \in Events : NonNullCompletedNull(i)

(***************************************************************************)
(* C3.  One resolver call per response-key group.                          *)
(***************************************************************************)
\* The group of field nodes that the dispatch at i executes.
GroupOf(i) ==
    LET groups == trace[Enclosing(i)].groups
    IN  groups[CHOOSE n \in 1..Len(groups) : groups[n].key = trace[i].key].fields

\* The resolver calls made to resolve the field dispatched at i.
CallsOf(i) ==
    {k \in (i + 1)..(FieldEnd(i) - 1) :
        /\ trace[k].ev = "call" /\ trace[k].cap # "resolve_abstract_type"
        /\ trace[k].position = trace[i].position}

\* The execute_selection_set calls made on the values resolved for the field
\* dispatched at i.
NestedSetsOf(i) ==
    {k \in (i + 1)..(FieldEnd(i) - 1) :
        trace[k].ev = "execute_selection_set" /\ trace[k].fields = trace[i].fields}

\* The object type the field dispatched at i is executed on.
ObjectTypeAt(i) ==
    IF get_named_type(query.schema, trace[i].object_type).some
    THEN get_named_type(query.schema, trace[i].object_type).x
    ELSE get_named_type(IntrospectionSchema, trace[i].object_type).x

\* The context as far as coercion reads it at the dispatch at i.
ExecutionAt(i) ==
    [NewExecution(query, resolver) EXCEPT !.introspecting = trace[i].introspecting]

\* The innermost named type of a field type.
RECURSIVE NamedTypeOf(_)
NamedTypeOf(ty) == IF ty.k = "NamedType" THEN ty.name ELSE NamedTypeOf(ty.of)

\* The field dispatched at i is scalar- or enum-typed and its parent value is
\* no object: resolution yields Null without asking a resolver.
LeafWithoutParent(i) ==
    LET named == get_named_type(ActiveSchema(ExecutionAt(i)),
                                NamedTypeOf(trace[FieldEnd(i)].field_type))
    IN  /\ named.some /\ named.x.kind \in {"Scalar", "Enum"}
        /\ ~IsSomeObject(trace[Enclosing(i)].object_value)

\* The execution of the field dispatched at i failed before resolution.
FailedBeforeResolution(i) ==
    /\ ~trace[FieldEnd(i)].r.ok
    /\ trace[FieldEnd(i)].r.e.e \in
           {"MissingArgumentError", "InvalidArgumentError", "NamedTypeError"}

\* What holds of every group, however often the resolver is called.
GroupUsesFirstNodeAndMergedSets(i) ==
    LET first == GroupOf(i)[1]
        arguments == coerce_argument_values(ExecutionAt(i), ObjectTypeAt(i), first)
    IN  /\ trace[i].name = first.name /\ trace[i].position = first.position
        /\ trace[FieldEnd(i)].field_type =
               get_field_type(ExecutionAt(i), ObjectTypeAt(i), first.name).x[1].field_type
        /\ \A k \in CallsOf(i) :
               "arguments" \in DOMAIN trace[k] =>
                   arguments.r.ok /\ trace[k].arguments = arguments.r.v
        /\ \A k \in NestedSetsOf(i) :
               trace[k].selection_set.items = merge_items(GroupOf(i))

(* C3 as stated: for every group of field nodes sharing a response key the  *)
(* resolver is invoked exactly once, with the first node's arguments and    *)
(* field definition, and the selection set executed on the resolved object  *)
(* is the concatenation of the sub-selections of all nodes of the group.    *)
C3_ResolverExactlyOncePerGroup ==
    Returned =>
        \A i \in Events :
            trace[i].ev = "dispatch" =>
                /\ Cardinality(CallsOf(i)) = 1
                /\ GroupUsesFirstNodeAndMergedSets(i)

(* C3 as amended: for every group the resolver is invoked at most once; it  *)
(* is invoked exactly once unless argument coercion fails, the named type   *)
(* is missing from the active schema, or the field is scalar- or enum-typed *)
(* and the parent value is no object; a call gets the argument values       *)
(* coerced from the first node, the field definition is that of the first   *)
(* node's name, and every selection set executed on a resolved object is    *)
(* the concatenation, in group order, of the sub-selections of all nodes.   *)
C3_ResolverAtMostOncePerGroup ==
    Returned =>
        \A i \in Events :
            trace[i].ev = "dispatch" =>
                /\ Cardinality(CallsOf(i)) =
                       IF FailedBeforeResolution(i) \/ LeafWithoutParent(i) THEN 0 ELSE 1
                /\ GroupUsesFirstNodeAndMergedSets(i)

\* A group of two nodes with different arguments and sub-selections was
\* resolved by one call and its merged selection set executed.
C3_Witness ==
    /\ Returned
    /\ \E i \in Events :
           /\ trace[i].ev = "dispatch"
           /\ Len(GroupOf(i)) = 2
           /\ GroupOf(i)[1].arguments # GroupOf(i)[2].arguments
           /\ GroupOf(i)[2].selection_set.items # <<>>
           /\ Cardinality(CallsOf(i)) = 1
           /\ NestedSetsOf(i) # {}

(***************************************************************************)
(* C4.  A fragment whose type condition does not apply to the object type  *)
(* being completed contributes nothing: it is not expanded, none of its    *)
(* field nodes enters the grouped field set, none is executed and the      *)
(* resolver is never called for them on that object type.                  *)
(***************************************************************************)
Range(seq) == {seq[n] : n \in 1..Len(seq)}

\* The type condition names the object type itself, an interface the object
\* type implements, or a union that lists the object type.
ConditionApplies(object_type_name, condition) ==
    \E schema \in {query.schema, IntrospectionSchema} :
        LET object_type == get_named_type(schema, object_type_name)
            named == get_named_type(schema, condition)
        IN  /\ object_type.some /\ object_type.x.kind = "Object" /\ named.some
            /\ \/ named.x.kind = "Object" /\ named.x.name = object_type_name
               \/ /\ named.x.kind = "Interface"
                  /\ named.x.name \in Range(object_type.x.implements_interfaces)
               \/ named.x.kind = "Union" /\ object_type_name \in Range(named.x.types)

\* The positions of the field nodes a fragment definition selects directly.
FragmentFieldPositions(fragment) ==
    {fragment.selection_set.items[n].position :
        n \in {m \in 1..Len(fragment.selection_set.items) :
                  fragment.selection_set.items[m].sel = "Field"}}

\* The positions of the field nodes in a grouped field set.
GroupedPositions(groups) ==
    UNION {{groups[n].fields[m].position : m \in 1..Len(groups[n].fields)} :
              n \in 1..Len(groups)}

\* The dispatch that the resolver call at k serves.
DispatchOfCall(k) ==
    CHOOSE i \in Events :
        /\ i < k /\ trace[i].ev = "dispatch" /\ trace[i].position = trace[k].position
        /\ \A j \in (i + 1)..(k - 1) :
               ~(trace[j].ev = "dispatch" /\ trace[j].position = trace[k].position)

C4_InapplicableFragmentContributesNothing ==
    pc = "done" =>
        \A n \in 1..Len(query.document.fragments) :
            LET fragment == query.document.fragments[n]
            IN  \A i \in Events :
                    /\ ( /\ trace[i].ev = "execute_selection_set"
                         /\ ~ConditionApplies(trace[i].object_type, fragment.type_condition) )
                       => /\ fragment.name \notin Range(trace[i].expanded)
                          /\ GroupedPositions(trace[i].groups)
                                 \cap FragmentFieldPositions(fragment) = {}
                    /\ ( /\ trace[i].ev = "dispatch"
                         /\ trace[i].position \in FragmentFieldPositions(fragment) )
                       => ConditionApplies(trace[i].object_type, fragment.type_condition)
                    /\ ( /\ trace[i].ev = "call" /\ "position" \in DOMAIN trace[i]
                         /\ trace[i].position \in FragmentFieldPositions(fragment) )
                       => ConditionApplies(trace[DispatchOfCall(i)].object_type,
                                           fragment.type_condition)

\* A selection set with spreads of fragments on another object type, on an
\* interface the object type does not implement and on a union that does not
\* list it was collected, next to a fragment that applies.
C4_Witness ==
    /\ Returned
    /\ \E i \in Events :
           /\ trace[i].ev = "execute_selection_set"
           /\ trace[i].expanded # <<>>
           /\ \A kind \in {"Object", "Interface", "Union"} :
                  \E n \in 1..Len(trace[i].selection_set.items) :
                      LET item == trace[i].selection_set.items[n]
                      IN  /\ item.sel = "FragmentSpread"
                          /\ get_fragment(query.document, item.fragment_name).some
                          /\ LET cond == get_fragment(query.document,
                                                      item.fragment_name).x.type_condition
                             IN  /\ get_named_type(query.schema, cond).some
                                 /\ get_named_type(query.schema, cond).x.kind = kind
                                 /\ ~ConditionApplies(trace[i].object_type, cond)

(***************************************************************************)
(* C5.  While a query whose selections reference only meta-fields is       *)
(* executed, no capability of the user resolver is invoked: every resolver *)
(* call goes to the introspection resolver.                                *)
(***************************************************************************)
\* Every root selection is a meta-field, written directly or through a
\* fragment whose selections are all meta-fields.
MetaFieldsOnly(items) ==
    \A n \in 1..Len(items) :
        /\ items[n].sel = "Field"
        /\ MetaRootField(items[n].name)

MetaOnly(document) ==
    /\ Len(document.operations) = 1
    /\ LET items == document.operations[1].selection_set.items
       IN  \A n \in 1..Len(items) :
               \/ items[n].sel = "Field" /\ MetaRootField(items[n].name)
               \/ /\ items[n].sel = "FragmentSpread"
                  /\ get_fragment(document, items[n].fragment_name).some
                  /\ MetaFieldsOnly(get_fragment(document,
                                        items[n].fragment_name).x.selection_set.items)

C5_MetaOnlyNeverCallsUserResolver ==
    (pc = "done" /\ MetaOnly(query.document)) =>
        \A i \in Events :
            trace[i].ev = "call" => trace[i].resolver = "introspection"

\* A meta-only query was executed and the introspection resolver was asked
\* for objects as well as for a scalar.
C5_Witness ==
    /\ Returned /\ MetaOnly(query.document)
    /\ \E i, j \in Events :
           /\ trace[i].ev = "call" /\ trace[i].cap = "resolve_object"
           /\ trace[i].resolver = "introspection"
           /\ trace[j].ev = "call" /\ trace[j].cap = "resolve_scalar_value"
           /\ trace[j].resolver = "introspection"

(***************************************************************************)
(* C6.  The entries of every Object value execute_selection_set returns    *)
(* are in the first-occurrence order of their response keys in the grouped *)
(* field set collect_fields produced.                                      *)
(***************************************************************************)
\* The entry of the execute_selection_set call that returns at event i.
SelectionSetStart(i) ==
    CHOOSE j \in Events :
        /\ j < i /\ trace[j].ev = "execute_selection_set"
        /\ trace[j].fields = trace[i].fields
        /\ \A k \in (j + 1)..(i - 1) :
               ~(trace[k].ev = "execute_selection_set" /\ trace[k].fields = trace[i].fields)

GroupKeys(groups) == [n \in 1..Len(groups) |-> groups[n].key]

RECURSIVE KeepKeys(_, _)
KeepKeys(keys, present) ==
    IF keys = <<>> THEN <<>>
    ELSE IF Head(keys) \in present THEN <<Head(keys)>> \o KeepKeys(Tail(keys), present)
    ELSE KeepKeys(Tail(keys), present)

C6_ObjectEntriesInGroupOrder ==
    pc = "done" =>
        \A i \in Events :
            (trace[i].ev = "selection_set_done" /\ trace[i].v.t = "Object")
                => Keys(trace[i].v.entries)
                       = KeepKeys(GroupKeys(trace[SelectionSetStart(i)].groups),
                                  Range(Keys(trace[i].v.entries)))

(***************************************************************************)
(* C7.  Document { missing } against type Query { name: String }: the only *)
(* selection is a field the root Query type does not declare.  The claim   *)
(* has the data be an empty Object value; the code returns Null.  In both  *)
(* the error list is empty.                                                *)
(***************************************************************************)
\* The query { <shape k> } against type Query { name: String }.
SimpleQuery(k) ==
    Query(Document(<< Operation("SelectionSet", RootSelectionSet(<<k>>)) >>), SimpleSchema)

\* The claim as stated: the data is an Object value without entries.
C7_UndeclaredOnlyFieldGivesEmptyObject ==
    (pc = "done" /\ query = SimpleQuery(2)) => result = QueryResult(ObjectV(<<>>), <<>>)

\* The claim as amended: the data is Null, the error list is empty.
C7_UndeclaredOnlyFieldGivesNull ==
    (pc = "done" /\ query = SimpleQuery(2)) => result = QueryResult(Null, <<>>)

\* { missing } was executed: the field was collected into a group, its
\* definition was not found and nothing was dispatched.
C7_Witness ==
    /\ Returned /\ query = SimpleQuery(2)
    /\ \E i \in Events :
           /\ trace[i].ev = "execute_selection_set"
           /\ GroupKeys(trace[i].groups) = <<"missing">>
    /\ \A i \in Events : trace[i].ev # "dispatch"

(***************************************************************************)
(* C8.  Document { name } against type Query { name: String }, with a      *)
(* resolver that yields an object whose name sub-field is "Jordi": the     *)
(* data is {name: "Jordi"} and there are no errors.                        *)
(***************************************************************************)
C8_NameQueryGivesJordi ==
    (pc = "done" /\ query = SimpleQuery(1) /\ resolver = FullResolver)
        => result = QueryResult(ObjectV(<< <<"name", StringV("Jordi")>> >>), <<>>)

(***************************************************************************)
(* C10.  A field that omits an argument whose declared type is NonNull and *)
(* that has no default yields exactly one MissingArgumentError, with the   *)
(* field's position and the argument's name, Null at the field's response  *)
(* key and no resolver call for the field; its sibling fields have the     *)
(* results they have when the failing field is not selected.               *)
(***************************************************************************)
\* The arguments of the field dispatched at i that are declared NonNull
\* without a default and that the field node omits.
RequiredOmitted(i) ==
    LET argument_definitions == get_argument_definitions(ObjectTypeAt(i), trace[i].name)
    IN  IF ~argument_definitions.some THEN {}
        ELSE {argument_definitions.x[n].name :
                 n \in {m \in 1..Len(argument_definitions.x) :
                           /\ argument_definitions.x[m].value_type.k = "NonNullType"
                           /\ ~argument_definitions.x[m].default_value.some
                           /\ ~get_argument_value(GroupOf(i)[1].arguments,
                                                  argument_definitions.x[m].name).some}}

\* The entries of a selection set's value: none when the value is Null.
EntriesOf(v) == IF v.t = "Object" THEN v.entries ELSE <<>>

RECURSIVE DropKey(_, _)
DropKey(items, key) ==
    IF items = <<>> THEN <<>>
    ELSE IF Head(items).sel = "Field" /\ get_response_key(Head(items)) = key
    THEN DropKey(Tail(items), key)
    ELSE <<Head(items)>> \o DropKey(Tail(items), key)

\* The query without the root fields of that response key.
WithoutRootKey(q, key) ==
    [q EXCEPT !.document.operations[1].selection_set.items = DropKey(@, key)]

\* The nodes of the group dispatched at i are fields written in the root
\* selection set itself.
SelectedDirectly(i) ==
    LET items == query.document.operations[1].selection_set.items
    IN  \A n \in 1..Len(GroupOf(i)) :
            \E m \in 1..Len(items) : items[m] = GroupOf(i)[n]

\* The root keys other than the one dispatched at i have the values they
\* have in the result of the query without that key.
SiblingsUnaffected(i) ==
    LET without == execute_query(WithoutRootKey(query, trace[i].key), resolver).result
    IN  /\ without.kind = "QueryResult"
        /\ \A n \in 1..Len(NameOrder) :
               NameOrder[n] # trace[i].key =>
                   BTreeGet(EntriesOf(result.value), NameOrder[n])
                       = BTreeGet(EntriesOf(without.value), NameOrder[n])

Literals ==
    {IntV("1"), StringV("x"), EnumV("ADMIN"), EnumV("NOPE"), Null,
     ListV(<<IntV("1")>>), ListV(<<IntV("1"), StringV("x")>>)}

\* The declared argument types: named (scalar, enum, undefined), non-null, list.
ArgumentTypes ==
    {NamedType("Int"), NamedType("String"), NamedType("Role"), NamedType("Ghost"),
     NonNullType(NamedType("Int")), ListType(NamedType("Int"))}

ArgumentDefinitions ==
    {InputValue("arg", ty, default) :
        ty \in ArgumentTypes, default \in {None} \cup {Some(l) : l \in Literals}}

\* The field node f, or f(arg: <literal>).
ArgumentField(given) ==
    Node("f", IF given.some THEN << <<"arg", given.x>> >> ELSE <<>>, <<>>, Pos(1, 1))

\* type T { f(<argument_def>): String }
ArgumentObjectType(argument_def) ==
    ObjectType("T", <<>>, << Field("f", NamedType("String"), << argument_def >>) >>)

CoercionQuery ==
    Query(Document(<< Operation("SelectionSet", RootSelectionSet(<<1>>)) >>), RichSchema)

InitCoerce ==
    /\ pc = "ready"
    /\ query = CoercionQuery
    /\ resolver = FullResolver
    /\ result = NoResult
    /\ trace = <<>>
    /\ coercion \in
           {[kind |-> "input", argument_def |-> argument_def, field |-> ArgumentField(given)] :
               argument_def \in ArgumentDefinitions,
               given \in {None, Some(VariableV("v"))} \cup {Some(l) : l \in Literals}}
    /\ frames = <<>>
    /\ completion = NoCompletion
    /\ conn = NoConnection
    /\ manager = NoManager

CoerceArgumentValues ==
    /\ pc = "ready"
    /\ coercion' = [kind |-> "coerced",
                    argument_def |-> coercion.argument_def,
                    field |-> coercion.field,
                    out |-> coerce_argument_values(NewExecution(query, resolver),
                                ArgumentObjectType(coercion.argument_def), coercion.field)]
    /\ pc' = "coerced"
    /\ UNCHANGED <<query, resolver, result, trace, frames, completion, conn, manager>>

NextCoerce == CoerceArgumentValues

SpecCoerce == InitCoerce /\ [][NextCoerce]_vars

(***************************************************************************)
(* C9.  For every argument definition with a schema default literal,       *)
(* coerce_argument_values yields for a field node that omits the argument  *)
(* what it yields for the field node that supplies the default literal.    *)
(***************************************************************************)
C9_OmittedDefaultSameAsExplicit ==
    ( /\ pc = "coerced"
      /\ coercion.argument_def.default_value.some
      /\ coercion.field.arguments = <<>> )
        => coercion.out =
               coerce_argument_values(NewExecution(query, resolver),
                   ArgumentObjectType(coercion.argument_def),
                   ArgumentField(coercion.argument_def.default_value))

(***************************************************************************)
(* C11.  coerce_argument_values processes the argument definitions of the  *)
(* field definition that get_field_type resolved for the field, also when  *)
(* that definition is a root meta-field of the introspection schema: the   *)
(* supplied arguments are coerced and handed to the resolver, a missing    *)
(* required argument is reported.                                          *)
(***************************************************************************)
\* The coercion of the first node's arguments against the argument
\* definitions of the field definition resolved at the dispatch at i.
CoercedAgainstResolvedDefinition(i) ==
    coerce_arguments(ExecutionAt(i), GroupOf(i)[1],
        get_field_type(ExecutionAt(i), ObjectTypeAt(i), trace[i].name).x[1].arguments,
        1, EmptyMap)

C11_ArgumentsOfResolvedDefinition ==
    Returned =>
        \A i \in Events :
            (trace[i].ev = "dispatch" /\ ~CoercedAgainstResolvedDefinition(i).panicked) =>
                IF CoercedAgainstResolvedDefinition(i).r.ok
                THEN \A k \in CallsOf(i) :
                         "arguments" \in DOMAIN trace[k] =>
                             trace[k].arguments = CoercedAgainstResolvedDefinition(i).r.v
                ELSE /\ trace[FieldEnd(i)].r = CoercedAgainstResolvedDefinition(i).r
                     /\ CallsOf(i) = {}

(***************************************************************************)
(* C12.  Within one top-level collect_fields call every fragment name is   *)
(* expanded at most once across the whole call tree: a fragment expanded   *)
(* inside another fragment is not expanded again at a later spread in an   *)
(* enclosing selection set, and no field node is appended to its group a   *)
(* second time.                                                            *)
(***************************************************************************)
NoRepeats(seq) == \A m, n \in 1..Len(seq) : seq[m] = seq[n] => m = n

C12_FragmentExpandedAtMostOnce ==
    pc = "done" =>
        \A i \in Events :
            trace[i].ev = "execute_selection_set" =>
                /\ NoRepeats(trace[i].expanded)
                /\ \A n \in 1..Len(trace[i].groups) :
                       NoRepeats(StackPositions(trace[i].groups[n].fields))

(***************************************************************************)
(* collect_fields step by step: one action per selection the loop looks    *)
(* at, with the recursion kept as an explicit stack of frames.  The bottom *)
(* frame is the call on the root selection set; each frame above it is the *)
(* call on the selection set of the fragment named in it.                  *)
(***************************************************************************)
\* Deepest stack of collect_fields calls the step-by-step run may build.
MaxDepth == 12

CollectFrame(selection_set, visited_fragments, fragment_name) ==
    [selections |-> SelectSeq(selection_set.items,
                        LAMBDA sel : ~skip_selection(sel) /\ include_selection(sel)),
     i |-> 1,
     visited_fragments |-> IF visited_fragments.some THEN visited_fragments.x ELSE {},
     grouped_fields |-> <<>>,
     fragment_name |-> fragment_name]

\* The root shapes that matter to the collection: fields with equal and with
\* different keys, a skipped field, spreads of fragments that apply, do not
\* apply, nest and form a cycle, and an inline fragment.
CollectShapes == {1, 8, 10, 11, 12, 13, 14, 19, 21}

CollectQueries == {Query(d, RichSchema) : d \in Documents(CollectShapes)}

InitCollect ==
    /\ pc = "collect"
    /\ query \in CollectQueries
    /\ resolver = FullResolver
    /\ result = NoResult
    /\ trace = <<>>
    /\ coercion = NoCoercion
    /\ completion = NoCompletion
    /\ conn = NoConnection
    /\ manager = NoManager
    /\ frames = << CollectFrame(get_operation(query.document).v.selection_set, None, "") >>

CollectTop == frames[Len(frames)]

CollectSelection == CollectTop.selections[CollectTop.i]

CollectObjectType == get_root_query_type(query.schema).x

CollectLooping == pc = "collect" /\ CollectTop.i <= Len(CollectTop.selections)

\* The fragment of the spread at hand is found and applies to the object type.
CollectFragmentApplies ==
    LET fragment == get_fragment(query.document, CollectSelection.fragment_name)
    IN  /\ fragment.some
        /\ does_fragment_type_apply(NewExecution(query, resolver), CollectObjectType,
                                    fragment.x.type_condition)

SetTop(frame) == [frames EXCEPT ![Len(frames)] = frame]

\* q::Selection::Field(field): the node is appended to the group of its key.
CollectField ==
    /\ CollectLooping
    /\ CollectSelection.sel = "Field"
    /\ frames' = SetTop([CollectTop EXCEPT
                    !.grouped_fields = IndexAppend(@, get_response_key(CollectSelection),
                                                   <<CollectSelection>>),
                    !.i = @ + 1])
    /\ UNCHANGED <<pc, query, resolver, result, trace, coercion, completion, conn, manager>>

\* A spread of a fragment that is in visited_fragments: nothing happens.
CollectSpreadVisited ==
    /\ CollectLooping
    /\ CollectSelection.sel = "FragmentSpread"
    /\ CollectSelection.fragment_name \in CollectTop.visited_fragments
    /\ frames' = SetTop([CollectTop EXCEPT !.i = @ + 1])
    /\ UNCHANGED <<pc, query, resolver, result, trace, coercion, completion, conn, manager>>

\* A spread of a fragment not yet visited that is missing or does not apply:
\* it is marked and contributes nothing.
CollectSpreadSkip ==
    /\ CollectLooping
    /\ CollectSelection.sel = "FragmentSpread"
    /\ CollectSelection.fragment_name \notin CollectTop.visited_fragments
    /\ ~CollectFragmentApplies
    /\ frames' = SetTop([CollectTop EXCEPT
                    !.visited_fragments = mark_visited(@, CollectSelection.fragment_name),
                    !.i = @ + 1])
    /\ UNCHANGED <<pc, query, resolver, result, trace, coercion, completion, conn, manager>>

\* A spread of an applicable fragment not yet visited: it is marked and
\* collect_fields is called on its selection set with a clone of the set.
CollectSpreadEnter ==
    /\ CollectLooping
    /\ CollectSelection.sel = "FragmentSpread"
    /\ CollectSelection.fragment_name \notin CollectTop.visited_fragments
    /\ CollectFragmentApplies
    /\ Len(frames) < MaxDepth
    /\ LET visited == mark_visited(CollectTop.visited_fragments, CollectSelection.fragment_name)
           fragment == get_fragment(query.document, CollectSelection.fragment_name).x
       IN  frames' = Append(SetTop([CollectTop EXCEPT !.visited_fragments = visited]),
                            CollectFrame(fragment.selection_set, Some(visited), fragment.name))
    /\ UNCHANGED <<pc, query, resolver, result, trace, coercion, completion, conn, manager>>

\* q::Selection::InlineFragment(_) => unimplemented!()
CollectInline ==
    /\ CollectLooping
    /\ CollectSelection.sel = "InlineFragment"
    /\ pc' = "panicked"
    /\ UNCHANGED <<query, resolver, result, trace, coercion, frames, completion, conn, manager>>

\* The loop of the top call is over: grouped_fields is returned, to the caller
\* of the root call or to the frame below, which merges the groups into its
\* own and moves on.
CollectReturn ==
    /\ pc = "collect"
    /\ CollectTop.i > Len(CollectTop.selections)
    /\ IF Len(frames) = 1
       THEN /\ pc' = "collected"
            /\ result' = [kind |-> "grouped_fields", groups |-> CollectTop.grouped_fields]
            /\ frames' = <<>>
       ELSE /\ frames' =
                  LET below == frames[Len(frames) - 1]
                  IN  Append(SubSeq(frames, 1, Len(frames) - 2),
                             [below EXCEPT
                                 !.grouped_fields = IndexMerge(@, CollectTop.grouped_fields),
                                 !.i = @ + 1])
            /\ UNCHANGED <<pc, result>>
    /\ UNCHANGED <<query, resolver, trace, coercion, completion, conn, manager>>

NextCollect ==
    \/ CollectField
    \/ CollectSpreadVisited
    \/ CollectSpreadSkip
    \/ CollectSpreadEnter
    \/ CollectInline
    \/ CollectReturn

\* The loop is sequential code of one thread: it keeps running.
SpecCollect == InitCollect /\ [][NextCollect]_vars /\ WF_vars(NextCollect)

\* The names of the fragments whose expansion is under way, outermost first.
ExpansionPath == [n \in 1..(Len(frames) - 1) |-> frames[n + 1].fragment_name]

FragmentNames == {query.document.fragments[n].name : n \in DOMAIN query.document.fragments}

\* The step-by-step run returns what the recursive function returns.
CollectAgreesWithFunction ==
    pc = "collected" =>
        result.groups = collect_fields(NewExecution(query, resolver), CollectObjectType,
                            get_operation(query.document).v.selection_set, None).groups

(***************************************************************************)
(* C13.  collect_fields terminates for every document, also when fragments *)
(* spread each other in a cycle: no fragment name occurs twice on the      *)
(* expansion path, so the stack never outgrows the fragments of the        *)
(* document, and every run ends by returning or by the panic on an inline  *)
(* fragment.                                                               *)
(***************************************************************************)
C13_CollectFieldsTerminates ==
    /\ [](NoRepeats(ExpansionPath) /\ Len(frames) <= Cardinality(FragmentNames) + 1)
    /\ <>(pc \in {"collected", "panicked"})

\* A cycle is met: the spread at hand names a fragment that is being expanded
\* two calls below.
C13_Witness ==
    /\ pc = "collect"
    /\ Len(frames) >= 3
    /\ CollectTop.i <= Len(CollectTop.selections)
    /\ CollectSelection.sel = "FragmentSpread"
    /\ CollectSelection.fragment_name = frames[Len(frames) - 1].fragment_name
    /\ CollectSelection.fragment_name \in CollectTop.visited_fragments

(***************************************************************************)
(* C14.  When the operation lookup fails, the operation is neither a query *)
(* nor a bare selection set, or the schema has no root Query type,         *)
(* execute_query returns data Null with exactly one error, and no field is *)
(* executed and no resolver is invoked.                                    *)
(***************************************************************************)
OperationLevelFailure ==
    \/ ~get_operation(query.document).ok
    \/ get_operation(query.document).v.kind \notin {"Query", "SelectionSet"}
    \/ ~get_root_query_type(query.schema).some

C14_OperationFailureShortCircuits ==
    (pc = "done" /\ OperationLevelFailure) =>
        /\ result.kind = "QueryResult"
        /\ result.value = Null
        /\ Len(result.errors) = 1
        /\ result.errors[1].e \in {"OperationNotFound", "OperationNameRequired",
                                   "NotSupported", "NoRootQueryObjectType"}
        /\ trace = <<>>

\* A well-formed query on a schema without a root Query type has returned.
C14_Witness ==
    /\ pc = "done"
    /\ get_operation(query.document).ok
    /\ ~get_root_query_type(query.schema).some
    /\ result.errors = << [e |-> "NoRootQueryObjectType"] >>

(***************************************************************************)
(* C15.  A field whose resolution or completion fails appends exactly one  *)
(* error, the one of that failure, and has Null at its response key; every *)
(* sibling key of the same selection set is still executed, and the root   *)
(* keys have the values they have when the failing field is not selected.  *)
(***************************************************************************)
\* The field event j reports a failure of execute_field.
FailedField(j) == trace[j].ev = "field" /\ ~trace[j].r.ok

\* The dispatch that the field event j ends.
FieldStart(j) ==
    CHOOSE i \in Events : i < j /\ trace[i].ev = "dispatch" /\ HasFieldEnd(i) /\ FieldEnd(i) = j

\* Every group of the selection set of the field event j whose field the
\* object type declares is dispatched before the selection set returns.
SiblingsExecuted(j) ==
    LET groups == trace[Enclosing(j)].groups
    IN  \A n \in 1..Len(groups) :
            get_field_type(ExecutionAt(FieldStart(j)), ObjectTypeAt(FieldStart(j)),
                           groups[n].fields[1].name).some
                => \E k \in (Enclosing(j) + 1)..(EnclosingDone(j) - 1) :
                       /\ trace[k].ev = "dispatch"
                       /\ Front(trace[k].fields) = Front(trace[j].fields)
                       /\ trace[k].key = groups[n].key
                       /\ HasFieldEnd(k) /\ FieldEnd(k) < EnclosingDone(j)

C15_FailingFieldIsNullAndSiblingsRun ==
    Returned =>
        \A j \in Events :
            FailedField(j) =>
                /\ trace[j].errors_after = trace[j].errors_before + 1
                /\ result.errors[trace[j].errors_after] = trace[j].r.e
                /\ trace[j].value = Null
                /\ HasEnclosingDone(j)
                /\ BTreeGet(EntriesOf(trace[EnclosingDone(j)].v), trace[j].key) = Some(Null)
                /\ SiblingsExecuted(j)
                /\ (RootDispatch(FieldStart(j)) /\ SelectedDirectly(FieldStart(j)))
                       => SiblingsUnaffected(FieldStart(j))

(***************************************************************************)
(* C16.  The error list only grows during an execution, by exactly one     *)
(* entry at each field that fails, and the errors of the result are the    *)
(* errors of the failing fields in the order in which these fields ended   *)
(* (depth first, left to right, fragments expanded in place); equal errors *)
(* are all kept.                                                           *)
(***************************************************************************)
\* The errors of the fields that failed among the first n events, in order.
RECURSIVE FailuresUpTo(_)
FailuresUpTo(n) ==
    IF n = 0 THEN <<>>
    ELSE IF FailedField(n) THEN Append(FailuresUpTo(n - 1), trace[n].r.e)
    ELSE FailuresUpTo(n - 1)

C16_ErrorsInExecutionOrder ==
    (Returned /\ ~OperationLevelFailure) =>
        /\ result.errors = FailuresUpTo(Len(trace))
        /\ \A j \in Events :
               trace[j].ev = "field" =>
                   /\ trace[j].errors_before = Len(FailuresUpTo(j - 1))
                   /\ trace[j].errors_after = Len(FailuresUpTo(j))

\* Two failure sites reported equal errors, and a failure in a nested
\* selection set came before a failure of a later root field.
C16_Witness ==
    /\ Returned
    /\ \E m, n \in 1..Len(result.errors) : m < n /\ result.errors[m] = result.errors[n]
    /\ \E j, k \in Events :
           /\ j < k /\ FailedField(j) /\ FailedField(k)
           /\ Len(trace[j].fields) > 1 /\ Len(trace[k].fields) = 1

(***************************************************************************)
(* The specification of value completion: a field type, the group of field *)
(* nodes of one response key and a resolved value arrive, complete_value   *)
(* runs on them in a fresh execution context over RichSchema, with the     *)
(* first node of the group on the field stack as execute_selection_set     *)
(* leaves it.                                                              *)
(***************************************************************************)
\* The declared types of the field: named (scalar, object, interface, union),
\* lists of them, non-null in and around the list.
CompletionTypes ==
    {NamedType("String"), NamedType("User"),
     ListType(NamedType("String")), ListType(NamedType("User")),
     ListType(NonNullType(NamedType("User"))), NonNullType(ListType(NamedType("User"))),
     ListType(ListType(NamedType("String"))),
     NamedType("Node"), NamedType("Pet"), NamedType("Thing"), NamedType("Other"),
     NonNullType(NamedType("Node")), ListType(NamedType("Thing"))}

\* What the resolver handed back for the field.
ResolvedValues ==
    {Null, StringV("a"), Jordi, Anon, ListV(<<>>), ListV(<<Jordi, Anon>>),
     ListV(<<Anon, Null, Jordi>>), ListV(<<StringV("a"), StringV("b")>>),
     ListV(<<ListV(<<StringV("a")>>), StringV("a"), ListV(<<StringV("b")>>)>>)}

\* The groups: one node, and two nodes of the same key with different
\* sub-selections.
CompletionGroups ==
    { << Node("it", <<>>, << Leaf("name", Pos(1, 2)), Leaf("nick", Pos(1, 3)) >>, Pos(1, 1)) >>,
      << Node("it", <<>>, << Leaf("name", Pos(1, 2)) >>, Pos(1, 1)),
         Node("it", <<>>, << Leaf("id", Pos(2, 2)), Leaf("nick", Pos(2, 3)) >>, Pos(2, 1)) >> }

\* Resolvers that differ in what resolve_abstract_type answers: an object
\* type, an object type outside the abstract type, nothing, an undefined
\* name, an interface.
CompletionResolvers ==
    {[FullResolver EXCEPT !.abstract = answer] : answer \in {"User", "Item", "", "Ghost", "Node"}}

CompletionQuery ==
    Query(Document(<< Operation("SelectionSet", RootSelectionSet(<<1>>)) >>), RichSchema)

InitComplete ==
    /\ pc = "ready"
    /\ query = CompletionQuery
    /\ resolver \in CompletionResolvers
    /\ result = NoResult
    /\ trace = <<>>
    /\ coercion = NoCoercion
    /\ frames = <<>>
    /\ completion \in
           {[kind |-> "input", field_type |-> field_type, fields |-> fields,
             resolved_value |-> resolved_value] :
               field_type \in CompletionTypes, fields \in CompletionGroups,
               resolved_value \in ResolvedValues}
    /\ conn = NoConnection
    /\ manager = NoManager

\* The context in which execute_field calls complete_value.
CompletionContext ==
    [NewExecution(query, resolver) EXCEPT !.fields = << completion.fields[1] >>]

CompleteValue ==
    /\ pc = "ready"
    /\ \E done \in {complete_value(CompletionContext, completion.fields[1],
                                   completion.field_type, completion.fields,
                                   completion.resolved_value)} :
           /\ completion' = [kind |-> "completed",
                             field_type |-> completion.field_type,
                             fields |-> completion.fields,
                             resolved_value |-> completion.resolved_value,
                             r |-> done.r,
                             panicked |-> done.self.panicked,
                             errors |-> done.self.errors]
           /\ trace' = done.self.log
    /\ pc' = "completed"
    /\ UNCHANGED <<query, resolver, result, coercion, frames, conn, manager>>

NextComplete == CompleteValue

SpecComplete == InitComplete /\ [][NextComplete]_vars

(***************************************************************************)
(* C17.  complete_value on a List type with a resolved value that is not   *)
(* Null: a value that is no List fails with ListValueError; the elements   *)
(* of a List are completed in order against the inner type, the list of    *)
(* their values is the result, and the first element that fails makes the  *)
(* whole list fail with its error, the later elements not being completed. *)
(***************************************************************************)
\* complete_value was applied to a List type and a value that is not Null.
ListCompleted ==
    /\ pc = "completed"
    /\ completion.field_type.k = "ListType"
    /\ completion.resolved_value # Null

\* The completion of an element on its own, and of the first n elements.
ElementCompleted(value) ==
    complete_value(CompletionContext, completion.fields[1], completion.field_type.of,
                   completion.fields, value)

PrefixCompleted(n) ==
    complete_value(CompletionContext, completion.fields[1], completion.field_type,
                   completion.fields, ListV(SubSeq(completion.resolved_value.items, 1, n)))

\* The elements whose completion fails.
FailingElements ==
    {n \in 1..Len(completion.resolved_value.items) :
        ~ElementCompleted(completion.resolved_value.items[n]).r.ok}

FirstFailingElement == CHOOSE n \in FailingElements : \A m \in FailingElements : n <= m

\* The object values of the selection sets executed for the elements, in order.
RECURSIVE ElementSets(_)
ElementSets(n) ==
    IF n = 0 THEN <<>>
    ELSE IF trace[n].ev = "execute_selection_set"
            /\ trace[n].fields = StackPositions(<< completion.fields[1] >>)
    THEN Append(ElementSets(n - 1), trace[n].object_value)
    ELSE ElementSets(n - 1)

C17_ListCompletion ==
    ListCompleted =>
        IF completion.resolved_value.t # "List"
        THEN /\ completion.r = Err([e |-> "ListValueError",
                                    position |-> completion.fields[1].position,
                                    name |-> completion.fields[1].name])
             /\ trace = <<>>
        ELSE LET values == completion.resolved_value.items
             IN  IF FailingElements = {}
                 THEN /\ completion.r =
                            Ok(ListV([n \in 1..Len(values) |-> ElementCompleted(values[n]).r.v]))
                      /\ completion.field_type.of \in {NamedType("User"),
                                                       NonNullType(NamedType("User"))}
                             => ElementSets(Len(trace)) =
                                    SelectSeq([n \in 1..Len(values) |-> Some(values[n])],
                                              LAMBDA v : v.x # Null)
                 ELSE /\ completion.r = ElementCompleted(values[FirstFailingElement]).r
                      /\ trace = PrefixCompleted(FirstFailingElement).self.log
                      /\ completion.errors = PrefixCompleted(FirstFailingElement).self.errors

\* A list whose second element fails, before a third that would not.
C17_Witness ==
    /\ ListCompleted
    /\ completion.resolved_value.t = "List"
    /\ FailingElements # {}
    /\ FirstFailingElement = 2
    /\ Len(completion.resolved_value.items) = 3
    /\ 3 \notin FailingElements
    /\ ~completion.r.ok

(***************************************************************************)
(* C18.  An inline fragment that passes the skip/include filter of a       *)
(* selection set does not abort the execution: execute_query returns a     *)
(* QueryResult that carries an error.  Checked for the root selection set. *)
(***************************************************************************)
\* The root selection set holds an inline fragment that is not filtered out.
InlineFragmentAtRoot ==
    /\ ~OperationLevelFailure
    /\ \E n \in 1..Len(query.document.operations[1].selection_set.items) :
           LET selection == query.document.operations[1].selection_set.items[n]
           IN  /\ selection.sel = "InlineFragment"
               /\ ~skip_selection(selection) /\ include_selection(selection)

C18_InlineFragmentFailsClosed ==
    (pc = "done" /\ InlineFragmentAtRoot) =>
        /\ result.kind = "QueryResult"
        /\ result.errors # <<>>

(***************************************************************************)
(* C19.  A field node that gives a variable reference as the value of a    *)
(* declared argument fails closed: the field ends with an error, has Null  *)
(* at its key and one error appended, no resolver is called for it, and    *)
(* execute_query returns a QueryResult.                                    *)
(***************************************************************************)
\* The field dispatched at i gives a variable for an argument its definition
\* on the object type declares.
VariableSupplied(i) ==
    LET argument_definitions == get_argument_definitions(ObjectTypeAt(i), trace[i].name)
    IN  /\ argument_definitions.some
        /\ \E n \in 1..Len(argument_definitions.x) :
               LET given == get_argument_value(GroupOf(i)[1].arguments,
                                               argument_definitions.x[n].name)
               IN  given.some /\ given.x.t = "Variable"

C19_VariableArgumentFailsClosed ==
    pc = "done" =>
        \A i \in Events :
            (trace[i].ev = "dispatch" /\ VariableSupplied(i)) =>
                /\ result.kind = "QueryResult"
                /\ HasFieldEnd(i)
                /\ ~trace[FieldEnd(i)].r.ok
                /\ trace[FieldEnd(i)].value = Null
                /\ trace[FieldEnd(i)].errors_after = trace[FieldEnd(i)].errors_before + 1
                /\ CallsOf(i) = {}

(***************************************************************************)
(* C20.  complete_value on an interface or union type with a resolved      *)
(* value that is not Null asks the resolver for the concrete type.  With   *)
(* no object type answered the field fails with AbstractTypeError naming   *)
(* the abstract type (Null at its key, one error) and no selection set is  *)
(* executed; with an object type answered the merged selection set of the  *)
(* group is executed against that type, the resolved value as the parent.  *)
(***************************************************************************)
\* complete_value was applied to an abstract named type and a value that is
\* not Null.
AbstractCompleted ==
    /\ pc = "completed"
    /\ completion.field_type.k = "NamedType"
    /\ get_named_type(query.schema, completion.field_type.name).x.kind \in {"Interface", "Union"}
    /\ completion.resolved_value # Null

\* The object type the resolver answers, if it answers one.
ConcreteType ==
    IF resolver.abstract # ""
       /\ get_named_type(query.schema, resolver.abstract).some
       /\ get_named_type(query.schema, resolver.abstract).x.kind = "Object"
    THEN Some(get_named_type(query.schema, resolver.abstract).x)
    ELSE None

C20_AbstractTypeCompletion ==
    AbstractCompleted =>
        /\ trace # <<>>
        /\ trace[1].ev = "call" /\ trace[1].cap = "resolve_abstract_type"
        /\ trace[1].name = completion.field_type.name
        /\ trace[1].object_value = Some(completion.resolved_value)
        /\ IF ~ConcreteType.some
           THEN /\ completion.r = Err([e |-> "AbstractTypeError",
                                       name |-> completion.field_type.name])
                /\ field_value(completion.r) = Null
                /\ field_errors(completion.r, completion.errors) = << completion.r.e >>
                /\ \A n \in Events : trace[n].ev # "execute_selection_set"
           ELSE /\ Len(trace) >= 2
                /\ trace[2].ev = "execute_selection_set"
                /\ trace[2].object_type = ConcreteType.x.name
                /\ trace[2].selection_set.items =
                       completion.fields[1].selection_set.items
                           \o (IF Len(completion.fields) = 2
                               THEN completion.fields[2].selection_set.items ELSE <<>>)
                /\ trace[2].object_value = Some(completion.resolved_value)
                /\ \A n \in Events :
                       (trace[n].ev = "execute_selection_set"
                        /\ trace[n].fields = StackPositions(<< completion.fields[1] >>)) => n = 2
                /\ completion.r.ok
                /\ completion.r.v = trace[Len(trace)].v
                /\ trace[Len(trace)].ev = "selection_set_done"

\* The resolver has no answer for a user that is to be completed as a Thing,
\* in a group of two nodes.
C20_Witness ==
    /\ AbstractCompleted
    /\ completion.field_type = NamedType("Thing")
    /\ completion.resolved_value = Jordi
    /\ Len(completion.fields) = 2
    /\ ~ConcreteType.some
    /\ ~completion.r.ok

(***************************************************************************)
(* C21.  A response key whose first field node names a field without a     *)
(* definition on the object type (nor, at the root, among the root fields  *)
(* of the introspection schema) is dropped: it is not dispatched, it has   *)
(* no entry in the value of the selection set, and at the root the result  *)
(* and everything that happens after the collection are those of the query *)
(* without that key (no error, no resolver call, same field stacks, same   *)
(* introspecting flags, the other keys as they are).                       *)
(***************************************************************************)
\* The object type of the execute_selection_set call entered at event j.
ObjectTypeOfSet(j) ==
    IF get_named_type(query.schema, trace[j].object_type).some
    THEN get_named_type(query.schema, trace[j].object_type).x
    ELSE get_named_type(IntrospectionSchema, trace[j].object_type).x

\* The n-th group of the call entered at j has no field definition.
UndefinedGroup(j, n) ==
    ~get_field_type(NewExecution(query, resolver), ObjectTypeOfSet(j),
                    trace[j].groups[n].fields[1].name).some

\* The return of the call entered at j, if it returned.
HasSetDone(j) ==
    \E d \in Events :
        d > j /\ trace[d].ev = "selection_set_done" /\ trace[d].fields = trace[j].fields

SetDone(j) ==
    CHOOSE d \in Events :
        /\ d > j /\ trace[d].ev = "selection_set_done" /\ trace[d].fields = trace[j].fields
        /\ \A k \in (j + 1)..(d - 1) :
               ~(trace[k].ev = "selection_set_done" /\ trace[k].fields = trace[j].fields)

\* Every node of the group is a field written in the root selection set.
RootGroupSelectedDirectly(fields) ==
    LET items == query.document.operations[1].selection_set.items
    IN  \A n \in 1..Len(fields) : \E m \in 1..Len(items) : items[m] = fields[n]

\* The run of the query without the root fields of that key.
RunWithoutRootKey(key) == execute_query(WithoutRootKey(query, key), resolver)

SameAsWithout(without) ==
    /\ without.result = result
    /\ Tail(without.self.log) = Tail(trace)

C21_UndefinedFieldIsDropped ==
    pc = "done" =>
        \A j \in Events :
            trace[j].ev = "execute_selection_set" =>
                \A n \in 1..Len(trace[j].groups) :
                    (UndefinedGroup(j, n) /\ HasSetDone(j)) =>
                        /\ \A k \in (j + 1)..(SetDone(j) - 1) :
                               ~(/\ trace[k].ev = "dispatch"
                                 /\ Front(trace[k].fields) = trace[j].fields
                                 /\ trace[k].key = trace[j].groups[n].key)
                        /\ ~BTreeGet(EntriesOf(trace[SetDone(j)].v),
                                     trace[j].groups[n].key).some
                        /\ (j = 1 /\ RootGroupSelectedDirectly(trace[j].groups[n].fields))
                               => SameAsWithout(RunWithoutRootKey(trace[j].groups[n].key))

\* An undeclared root field was dropped next to a root field that has an
\* entry, in a run that called a resolver.
C21_Witness ==
    /\ Returned
    /\ trace # <<>>
    /\ \E n \in 1..Len(trace[1].groups) :
           /\ UndefinedGroup(1, n)
           /\ RootGroupSelectedDirectly(trace[1].groups[n].fields)
           /\ EntriesOf(result.value) # <<>>
           /\ \E k \in Events : trace[k].ev = "call"

(***************************************************************************)
(* C27.  The field stack is balanced.  Every execute_selection_set call    *)
(* that returns does so with the stack it was entered with, whether its    *)
(* fields succeed or fail; from the dispatch of a field to its end the     *)
(* stack is the path of field nodes from the root to that field; the stack *)
(* is empty when the root execution returns.                               *)
(***************************************************************************)
\* The stack an event leaves behind, read off the event alone: a dispatch
\* has pushed its field node, a field end is followed by the pop.
StackAfter(k) == IF trace[k].ev = "field" THEN Front(trace[k].fields) ELSE trace[k].fields

\* The stack before the event n: what the last event before it that shows
\* the stack left behind; empty at the start.
StackBefore(n) ==
    LET shown == {k \in 1..(n - 1) : "fields" \in DOMAIN trace[k]}
    IN  IF shown = {} THEN <<>>
        ELSE StackAfter(CHOOSE k \in shown : \A l \in shown : l <= k)

\* The return that belongs to the call entered at j: the first one after as
\* many returns as entries in between.
ReturnsOf(j) ==
    {d \in (j + 1)..Len(trace) :
        /\ trace[d].ev = "selection_set_done"
        /\ Cardinality({k \in (j + 1)..(d - 1) : trace[k].ev = "execute_selection_set"})
               = Cardinality({k \in (j + 1)..(d - 1) : trace[k].ev = "selection_set_done"})}

ReturnOf(j) == CHOOSE d \in ReturnsOf(j) : \A e \in ReturnsOf(j) : d <= e

C27_FieldStackBalanced ==
    pc = "done" =>
        /\ \A n \in Events :
               /\ trace[n].ev = "dispatch" =>
                      trace[n].fields = Append(StackBefore(n), trace[n].position)
               /\ trace[n].ev = "field" =>
                      /\ trace[n].fields = StackBefore(n)
                      /\ trace[n].fields # <<>>
                      /\ trace[n].fields[Len(trace[n].fields)] = trace[n].position
               /\ trace[n].ev \in {"execute_selection_set", "selection_set_done"} =>
                      trace[n].fields = StackBefore(n)
               /\ (trace[n].ev = "execute_selection_set" /\ ReturnsOf(n) # {}) =>
                      trace[ReturnOf(n)].fields = trace[n].fields
        /\ (Returned /\ ~OperationLevelFailure) =>
               /\ trace[1].ev = "execute_selection_set" /\ trace[1].fields = <<>>
               /\ ReturnsOf(1) = {Len(trace)}
               /\ StackAfter(Len(trace)) = <<>>

\* A nested selection set returned after one of its fields failed, two
\* fields deep.
C27_Witness ==
    /\ Returned
    /\ \E n \in Events :
           /\ FailedField(n) /\ Len(trace[n].fields) = 2
           /\ HasEnclosingDone(n)
           /\ trace[EnclosingDone(n)].fields = Front(trace[n].fields)

(***************************************************************************)
(* C28.  Every error of the result belongs to a response key that is in    *)
(* the returned value tree with value Null: a field that failed has Null   *)
(* at its key in the value of its selection set, and each field around it  *)
(* ended with a value, so that selection set's value was not discarded.    *)
(***************************************************************************)
\* The ends of the fields around the field that ended at j.
FieldEndsAround(j) ==
    {k \in (j + 1)..Len(trace) :
        /\ trace[k].ev = "field"
        /\ Len(trace[k].fields) < Len(trace[j].fields)
        /\ trace[k].fields = SubSeq(trace[j].fields, 1, Len(trace[k].fields))
        /\ \A l \in (j + 1)..(k - 1) :
               ~(trace[l].ev = "field" /\ trace[l].fields = trace[k].fields)}

C28_ErrorsBelongToNullKeys ==
    Returned =>
        \A j \in Events :
            FailedField(j) =>
                /\ HasEnclosingDone(j)
                /\ BTreeGet(EntriesOf(trace[EnclosingDone(j)].v), trace[j].key) = Some(Null)
                /\ \A k \in FieldEndsAround(j) : trace[k].r.ok

(***************************************************************************)
(* C29.  A field whose declared type names a type that the active schema   *)
(* does not define, directly, under NonNull or as the element type of a    *)
(* list, and whose arguments were coerced, fails with NamedTypeError: the  *)
(* field ends (the execution is not aborted in it) with that error, Null   *)
(* at its key and one error appended.                                      *)
(***************************************************************************)
\* The declared type of the field dispatched at i.
DeclaredTypeAt(i) ==
    get_field_type(ExecutionAt(i), ObjectTypeAt(i), trace[i].name).x[1].field_type

\* That type names a type the active schema at the dispatch does not define.
NamedTypeAbsent(i) ==
    ~get_named_type(ActiveSchema(ExecutionAt(i)), NamedTypeOf(DeclaredTypeAt(i))).some

\* The arguments of the field dispatched at i are coerced without failure.
ArgumentsCoerced(i) ==
    LET arguments == coerce_argument_values(ExecutionAt(i), ObjectTypeAt(i), GroupOf(i)[1])
    IN  ~arguments.panicked /\ arguments.r.ok

C29_AbsentNamedTypeFailsClosed ==
    pc = "done" =>
        \A i \in Events :
            (trace[i].ev = "dispatch" /\ NamedTypeAbsent(i) /\ ArgumentsCoerced(i)) =>
                /\ HasFieldEnd(i)
                /\ trace[FieldEnd(i)].r =
                       Err([e |-> "NamedTypeError", name |-> NamedTypeOf(DeclaredTypeAt(i))])
                /\ trace[FieldEnd(i)].value = Null
                /\ trace[FieldEnd(i)].errors_after = trace[FieldEnd(i)].errors_before + 1

(***************************************************************************)
(* The GraphQL over WebSocket connection (server/websocket/connection.rs). *)
(* The connection future polls the reader (for_each over the incoming      *)
(* messages) and the writer; each subscription is a task of its own on the *)
(* runtime's thread pool, so a task's poll interleaves with the reader.    *)
(* The outgoing message channel is kept as what the claims observe of it:  *)
(* conn.answer holds the messages the reader enqueued while it handled     *)
(* conn.last, the last incoming message, and tasks[t].enqueued holds, in   *)
(* the order of the channel, the messages about operation t: the Data of   *)
(* its task and the Complete of its Stop.  The stopper, outcome and sent   *)
(* fields of a task and the task field of a message are ghosts.            *)
(***************************************************************************)
OperationIds == {"1", "2"}
MaxMessages == 3
MaxTasks == 2
MaxData == 1

\* The incoming messages; ok tells how a Start's subgraph and query turn out.
ConnectionInit == [type |-> "connection_init", id |-> "", ok |-> ""]
ConnectionTerminate == [type |-> "connection_terminate", id |-> "", ok |-> ""]
Start(id, ok) == [type |-> "start", id |-> id, ok |-> ok]
Stop(id) == [type |-> "stop", id |-> id, ok |-> ""]
InvalidMessage == [type |-> "invalid", id |-> "", ok |-> ""]
NoMessage == [type |-> "", id |-> "", ok |-> ""]

\* The outgoing messages; task is the operation a message is about.
OutgoingMessage(type, id, payload, task) == [type |-> type, id |-> id, payload |-> payload, task |-> task]
ConnectionAck == OutgoingMessage("connection_ack", "", "", 0)
Complete(id, task) == OutgoingMessage("complete", id, "", task)
from_error_string(id, s) == OutgoingMessage("error", id, s, 0)
from_query_result(id, payload, task) == OutgoingMessage("data", id, payload, task)

\* A connection as into_future sets it up: the channel for writing is
\* allocated, the reader has an empty operations map, nothing is spawned.
NewConnection ==
    [kind |-> "connection",
     future |-> "pending",
     sink_closed |-> FALSE,
     receiver |-> "alive",
     operations |-> <<>>,
     tasks |-> <<>>,
     handled |-> 0,
     last |-> NoMessage,
     answer |-> <<>>]

\* A subscription task as tokio::spawn receives it.
NewTask(id) ==
    [id |-> id, stopper |-> "held", state |-> "idle", sent |-> 0, outcome |-> "",
     enqueued |-> <<>>]

\* UnboundedSender::unbounded_send: fails once the receiver is gone.
unbounded_send(c, msg) ==
    IF c.receiver = "dropped" THEN [ok |-> FALSE, c |-> c]
    ELSE IF msg.task \in DOMAIN c.tasks
    THEN [ok |-> TRUE, c |-> [c EXCEPT !.tasks[msg.task].enqueued = Append(@, msg)]]
    ELSE [ok |-> TRUE, c |-> c]

\* operations.insert(id, stopper) and operations.remove(&id).
operations_insert(operations, id, stopper) ==
    [k \in DOMAIN operations \cup {id} |-> IF k = id THEN stopper ELSE operations[k]]
operations_remove(operations, id) ==
    [k \in DOMAIN operations \ {id} |-> operations[k]]

\* The stoppers a map holds.
Stoppers(operations) == {operations[k] : k \in DOMAIN operations}

\* Dropping the senders of a set of oneshot channels.
drop_stoppers(tasks, stoppers) ==
    [t \in DOMAIN tasks |-> IF t \in stoppers THEN [tasks[t] EXCEPT !.stopper = "dropped"] ELSE tasks[t]]

\* ws_reader.select(ws_writer).then(..): the connection future completes in
\* the poll in which the reader or the writer completes, and both halves
\* are dropped there: the for_each closure with its operations map and its
\* msg_sink, and the writer with the receiving end of the channel.
select_completes(c) ==
    [c EXCEPT !.future = "complete",
              !.receiver = "dropped",
              !.operations = <<>>,
              !.tasks = drop_stoppers(@, Stoppers(c.operations))]

\* The closure of for_each returned Err: the reader fails.
reader_fails(c) == select_completes(c)

\* send_message and send_error_string: Err(WsError::Http(500)) when the
\* message cannot be enqueued, which ends the reader.
send_message(c, msg) ==
    LET sent == unbounded_send(c, msg)
    IN IF sent.ok THEN [sent.c EXCEPT !.answer = Append(@, msg)] ELSE reader_fails(sent.c)
send_error_string(c, id, s) == send_message(c, from_error_string(id, s))

\* A Start for a registered id that spawns a second operation all the same.
start_registered_again(c, id, ok) ==
    LET stopper == Len(c.tasks) + 1
    IN [c EXCEPT !.operations = operations_insert(@, id, stopper),
                 !.tasks = Append(@, NewTask(id))]

\* A Start for a registered id: the Error, and return.
start_registered(c, id, ok) == send_error_string(c, id, "Operation with ID already started")

\* The Start arm of the match: an id that is registered, a subgraph that
\* is unknown and a query that does not parse are answered with an Error;
\* otherwise the stopper is remembered and the subscription is spawned.
handle_start(c, id, ok) ==
    IF id \in DOMAIN c.operations THEN start_registered(c, id, ok)
    ELSE IF ok = "unknown_subgraph" THEN send_error_string(c, id, "Unknown subgraph name or ID")
    ELSE IF ok = "invalid_query" THEN send_error_string(c, id, "Invalid query")
    ELSE LET stopper == Len(c.tasks) + 1
         IN [c EXCEPT !.operations = operations_insert(@, id, stopper),
                      !.tasks = Append(@, NewTask(id))]

\* A Stop that answers Complete and leaves the operation as it is.
stop_registered_keeping(c, id) == send_message(c, Complete(id, c.operations[id]))

\* A Stop for a registered id: remove it, drop the stopper, send Complete.
stop_registered(c, id) ==
    send_message([c EXCEPT !.operations = operations_remove(@, id),
                           !.tasks = drop_stoppers(@, {c.operations[id]})],
                 Complete(id, c.operations[id]))

\* The Stop arm of the match.
handle_stop(c, id) ==
    IF id \in DOMAIN c.operations
    THEN stop_registered(c, id)
    ELSE send_error_string(c, id, "Unknown operation ID")

\* A ConnectionTerminate that closes the sink and goes on reading.
terminate_and_go_on(c) == [c EXCEPT !.sink_closed = TRUE]

\* The ConnectionTerminate arm: msg_sink.close(), then Err(ConnectionClosed).
handle_terminate(c) == reader_fails([c EXCEPT !.sink_closed = TRUE])

\* The closure of for_each applied to one incoming message.
handle_incoming_message(c, msg) ==
    LET heard == [c EXCEPT !.handled = @ + 1, !.last = msg, !.answer = <<>>]
    IN CASE msg.type = "invalid" -> reader_fails(heard)
         [] msg.type = "connection_init" -> send_message(heard, ConnectionAck)
         [] msg.type = "connection_terminate" -> handle_terminate(heard)
         [] msg.type = "stop" -> handle_stop(heard, msg.id)
         [] msg.type = "start" -> handle_start(heard, msg.id, msg.ok)

InitConnection ==
    /\ pc = "connection"
    /\ query = CompletionQuery
    /\ resolver = FullResolver
    /\ result = NoResult
    /\ trace = <<>>
    /\ coercion = NoCoercion
    /\ frames = <<>>
    /\ completion = NoCompletion
    /\ conn = NewConnection
    /\ manager = NoManager

\* The reader is polled and the stream has a message for it.
CanReceive == conn.future = "pending" /\ conn.handled < MaxMessages

ReceiveConnectionInit ==
    /\ CanReceive
    /\ conn' = handle_incoming_message(conn, ConnectionInit)
    /\ UNCHANGED <<pc, query, resolver, result, trace, coercion, frames, completion, manager>>

ReceiveConnectionTerminate ==
    /\ CanReceive
    /\ conn' = handle_incoming_message(conn, ConnectionTerminate)
    /\ UNCHANGED <<pc, query, resolver, result, trace, coercion, frames, completion, manager>>

ReceiveInvalid ==
    /\ CanReceive
    /\ conn' = handle_incoming_message(conn, InvalidMessage)
    /\ UNCHANGED <<pc, query, resolver, result, trace, coercion, frames, completion, manager>>

ReceiveStop ==
    \E id \in OperationIds :
        /\ CanReceive
        /\ conn' = handle_incoming_message(conn, Stop(id))
        /\ UNCHANGED <<pc, query, resolver, result, trace, coercion, frames, completion, manager>>

ReceiveStart ==
    \E id \in OperationIds, ok \in {"ok", "unknown_subgraph", "invalid_query"} :
        /\ CanReceive
        /\ (id \notin DOMAIN conn.operations /\ ok = "ok") => Len(conn.tasks) < MaxTasks
        /\ conn' = handle_incoming_message(conn, Start(id, ok))
        /\ UNCHANGED <<pc, query, resolver, result, trace, coercion, frames, completion, manager>>

\* The incoming stream ends or fails: for_each, and so the reader, is done.
ReaderEnds ==
    /\ conn.future = "pending"
    /\ conn' = select_completes(conn)
    /\ UNCHANGED <<pc, query, resolver, result, trace, coercion, frames, completion, manager>>

\* Forwarding to the WebSocket sink fails: the writer is done.
WriterFails ==
    /\ conn.future = "pending"
    /\ conn' = select_completes(conn)
    /\ UNCHANGED <<pc, query, resolver, result, trace, coercion, frames, completion, manager>>

\* A poll of a task begins: Select polls `stopped` first, which is ready
\* once the stopper is dropped, and only then the subscription.
TaskPoll(t) ==
    /\ conn.tasks[t].state = "idle"
    /\ conn' = [conn EXCEPT !.tasks[t] =
                   IF @.stopper = "dropped"
                   THEN [@ EXCEPT !.state = "ended", !.outcome = "stopped"]
                   ELSE [@ EXCEPT !.state = "polling"]]
    /\ UNCHANGED <<pc, query, resolver, result, trace, coercion, frames, completion, manager>>

\* The task after its Data message was handed to a sender.
task_sent(c, t, sent, then_state, outcome, broken) ==
    IF sent.ok
    THEN [sent.c EXCEPT !.tasks[t].sent = @ + 1, !.tasks[t].state = then_state,
                        !.tasks[t].outcome = outcome]
    ELSE [sent.c EXCEPT !.tasks[t].state = "ended", !.tasks[t].outcome = broken]

\* The poll goes on to the subscription, which is run_subscription and
\* then the forwarding of its result stream.  It is not ready:
TaskNotReady(t) ==
    /\ conn.tasks[t].state = "polling"
    /\ conn' = [conn EXCEPT !.tasks[t].state = "idle"]
    /\ UNCHANGED <<pc, query, resolver, result, trace, coercion, frames, completion, manager>>

\* run_subscription fails: the error is sent as Data, with an unwrap that
\* panics when the receiver is gone, and the task is done.
TaskSubscriptionFails(t) ==
    /\ conn.tasks[t].state = "polling"
    /\ conn.tasks[t].sent = 0
    /\ conn' = task_sent(conn, t, unbounded_send(conn, from_query_result(conn.tasks[t].id, "errors", t)), "ended", "failed", "panicked")
    /\ UNCHANGED <<pc, query, resolver, result, trace, coercion, frames, completion, manager>>

\* The result stream has a result: it is forwarded as Data, and the poll
\* goes on; a sink without receiver ends the forwarding with an error.
TaskResult(t) ==
    /\ conn.tasks[t].state = "polling"
    /\ conn.tasks[t].sent < MaxData
    /\ conn' = task_sent(conn, t, unbounded_send(conn, from_query_result(conn.tasks[t].id, "data", t)), "polling", "", "sink_error")
    /\ UNCHANGED <<pc, query, resolver, result, trace, coercion, frames, completion, manager>>

\* The result stream ends: the forwarding, and with it the task, is done.
TaskStreamEnds(t) ==
    /\ conn.tasks[t].state = "polling"
    /\ conn' = [conn EXCEPT !.tasks[t].state = "ended", !.tasks[t].outcome = "finished"]
    /\ UNCHANGED <<pc, query, resolver, result, trace, coercion, frames, completion, manager>>

TaskNext(t) ==
    \/ TaskPoll(t)
    \/ TaskNotReady(t)
    \/ TaskSubscriptionFails(t)
    \/ TaskResult(t)
    \/ TaskStreamEnds(t)

NextConnection ==
    \/ ReceiveConnectionInit
    \/ ReceiveConnectionTerminate
    \/ ReceiveInvalid
    \/ ReceiveStop
    \/ ReceiveStart
    \/ ReaderEnds
    \/ WriterFails
    \/ \E t \in DOMAIN conn.tasks : TaskPoll(t)
    \/ \E t \in DOMAIN conn.tasks : TaskNotReady(t)
    \/ \E t \in DOMAIN conn.tasks : TaskSubscriptionFails(t)
    \/ \E t \in DOMAIN conn.tasks : TaskResult(t)
    \/ \E t \in DOMAIN conn.tasks : TaskStreamEnds(t)

\* Dropping the stopper wakes the task, and the runtime polls a task that
\* was woken until it is done or not ready.
Cancelled(t) == conn.tasks[t].stopper = "dropped" /\ conn.tasks[t].state # "ended"
TaskFairness == WF_vars(\E t \in DOMAIN conn.tasks : Cancelled(t) /\ TaskNext(t))

SpecConnection == InitConnection /\ [][NextConnection]_vars /\ TaskFairness

\* The step is the reader's handling of msg.
Handles(msg) == conn'.handled = conn.handled + 1 /\ conn'.last = msg

\* The connection after the reader has heard msg and before it acts on it.
Heard(msg) == [conn EXCEPT !.handled = @ + 1, !.last = msg, !.answer = <<>>]

\* C22: a Start whose id is in the operations map is answered with one
\* Error for that id and changes nothing else: the map keeps the stopper it
\* had, no task is spawned, no task is cancelled or otherwise changed.
C22_DuplicateStartOnlyAnswersError ==
    [][\A id \in OperationIds, ok \in {"ok", "unknown_subgraph", "invalid_query"} :
           (Handles(Start(id, ok)) /\ id \in DOMAIN conn.operations) =>
               /\ conn'.answer = << from_error_string(id, "Operation with ID already started") >>
               /\ conn'.operations = conn.operations
               /\ conn'.tasks = conn.tasks
               /\ conn' = [Heard(Start(id, ok)) EXCEPT !.answer = conn'.answer]]_vars

\* A Start was refused for its id although its query and subgraph are
\* fine; the operation that holds the id still has its stopper, and
\* another operation is registered too.
C22_Witness ==
    /\ conn.kind = "connection"
    /\ \E id \in OperationIds :
           /\ conn.last = Start(id, "ok")
           /\ conn.answer = << from_error_string(id, "Operation with ID already started") >>
           /\ DOMAIN conn.operations = OperationIds
           /\ conn.tasks[conn.operations[id]].stopper = "held"

\* The stopper of task t is dropped; task t has ended.
StopperDropped(t) == t \in DOMAIN conn.tasks /\ conn.tasks[t].stopper = "dropped"
TaskEnded(t) == t \in DOMAIN conn.tasks /\ conn.tasks[t].state = "ended"

\* The step handles a Stop for a registered id: the id leaves the map, the
\* stopper of its task is dropped, one Complete is enqueued, nothing else.
StopOfRegistered(id) ==
    (Handles(Stop(id)) /\ id \in DOMAIN conn.operations) =>
        LET t == conn.operations[id]
        IN conn' = [Heard(Stop(id)) EXCEPT
                        !.operations = operations_remove(@, id),
                        !.tasks[t].stopper = "dropped",
                        !.tasks[t].enqueued = Append(@, Complete(id, t)),
                        !.answer = << Complete(id, t) >>]

\* The step handles a Stop for an id that is not registered: one Error.
StopOfUnknown(id) ==
    (Handles(Stop(id)) /\ id \notin DOMAIN conn.operations) =>
        conn' = [Heard(Stop(id)) EXCEPT
                     !.answer = << from_error_string(id, "Unknown operation ID") >>]

\* The step handles a Start for an id that is not registered, with a known
\* subgraph and a query that parses: it is registered with a new task.
StartOfFree(id) ==
    (Handles(Start(id, "ok")) /\ id \notin DOMAIN conn.operations) =>
        /\ conn'.answer = <<>>
        /\ conn'.tasks = Append(conn.tasks, NewTask(id))
        /\ id \in DOMAIN conn'.operations
        /\ conn'.operations[id] = Len(conn'.tasks)

\* C23: a Stop for an id in the operations map removes the id, drops the
\* stopper of its task, which then ends, and enqueues exactly one Complete
\* for the id; the id being free again, a Start with it is accepted.  A
\* Stop for an id not in the map enqueues one Error and leaves the map.
\* A stopper stays dropped and a task stays ended, so that again and again
\* every task with a dropped stopper has ended says that each of them ends.
C23_StopCancelsAndFreesTheId ==
    /\ [][\A id \in OperationIds : StopOfRegistered(id) /\ StopOfUnknown(id) /\ StartOfFree(id)]_vars
    /\ []<>(\A t \in DOMAIN conn.tasks : StopperDropped(t) => TaskEnded(t))

\* An operation was started, stopped and answered with Complete, its task
\* has ended as stopped, and the same id is registered again, with a new
\* task that runs.
C23_Witness ==
    /\ conn.kind = "connection"
    /\ \E id \in OperationIds :
           /\ conn.last = Start(id, "ok")
           /\ Len(conn.tasks) = 2
           /\ conn.tasks[1].id = id
           /\ conn.tasks[1].outcome = "stopped"
           /\ conn.tasks[1].enqueued = << Complete(id, 1) >>
           /\ id \in DOMAIN conn.operations
           /\ conn.operations[id] = 2
           /\ conn.tasks[2].state = "polling"

\* C24: the operations map holds only ids of operations whose task is
\* still running: the id of an operation that ended by itself (its
\* run_subscription failed or its result stream ended) is not registered.
C24_OnlyRunningOperationsRegistered ==
    conn.kind = "connection" =>
        \A id \in DOMAIN conn.operations : ~TaskEnded(conn.operations[id])

\* What follows for the client: a Start or a Stop for the id of an
\* operation that ended by itself is treated as for a running operation.
EndedOperationAnsweredAsRunning ==
    /\ conn.kind = "connection"
    /\ \E id \in DOMAIN conn.operations :
           /\ TaskEnded(conn.operations[id])
           /\ conn.last = Start(id, "ok")
           /\ conn.answer = << from_error_string(id, "Operation with ID already started") >>

\* C25: once the Complete that answers the Stop of an operation is
\* enqueued, no Data of that operation is enqueued after it, however the
\* polls of its task interleave with the reader.
C25_NoDataAfterComplete ==
    conn.kind = "connection" =>
        \A t \in DOMAIN conn.tasks :
            \A i, j \in 1..Len(conn.tasks[t].enqueued) :
                (i < j /\ conn.tasks[t].enqueued[i].type = "complete") =>
                    conn.tasks[t].enqueued[j].type # "data"

\* The reader has handled a ConnectionTerminate.
Terminated == conn.kind = "connection" /\ conn.last = ConnectionTerminate

\* C26: after a ConnectionTerminate the sink of the reader is closed, the
\* connection future is complete, the operations map is gone and with it
\* every stopper is dropped; no incoming message is handled any more; and
\* every task of the connection ends.
C26_TerminateEndsConnectionAndOperations ==
    /\ [](Terminated =>
              /\ conn.sink_closed
              /\ conn.future = "complete"
              /\ DOMAIN conn.operations = {}
              /\ \A t \in DOMAIN conn.tasks : conn.tasks[t].stopper = "dropped")
    /\ [][Terminated => (conn'.last = conn.last /\ conn'.handled = conn.handled)]_vars
    /\ (Terminated ~> (\A t \in DOMAIN conn.tasks : TaskEnded(t)))

\* The connection was terminated while an operation was registered that
\* no Stop had stopped, its task has ended as stopped, and the reader had
\* not yet handled as many messages as it may.
C26_Witness ==
    /\ Terminated
    /\ conn.handled < MaxMessages
    /\ conn.tasks # <<>>
    /\ \A t \in DOMAIN conn.tasks :
           /\ conn.tasks[t].outcome = "stopped"
           /\ \A n \in 1..Len(conn.tasks[t].enqueued) : conn.tasks[t].enqueued[n].type # "complete"

(***************************************************************************)
(* The SubgraphInstanceManager (core/subgraph/instance_manager.rs): the    *)
(* provider sends events into the manager's channel, and the task spawned  *)
(* by handle_subgraph_events handles them one at a time, in the order of   *)
(* the channel.  manager.sent is every event sent so far; the first        *)
(* manager.handled of them have been handled.                              *)
(***************************************************************************)
SubgraphIds == {"Qm1", "Qm2"}
MaxEvents == 3

\* Two manifests for each id, to tell an instance from the one it replaces.
SubgraphManifest(id, location) == [id |-> id, location |-> location]
Manifests == {SubgraphManifest(id, location) : id \in SubgraphIds, location \in {"a", "b"}}

SubgraphAdded(manifest) == [event |-> "SubgraphAdded", id |-> manifest.id, manifest |-> manifest]
SubgraphRemoved(id) == [event |-> "SubgraphRemoved", id |-> id, manifest |-> SubgraphManifest(id, "")]
SubgraphProviderEvents == {SubgraphAdded(manifest) : manifest \in Manifests} \cup {SubgraphRemoved(id) : id \in SubgraphIds}

\* SubgraphInstance::from_manifest: the instance is known by its manifest.
from_manifest(manifest) == [manifest |-> manifest]

\* The manager after new(): an empty channel, an empty instances map.
NewManager == [kind |-> "manager", sent |-> <<>>, handled |-> 0, instances |-> <<>>]

\* instances.insert(id, instance).
handle_subgraph_added(instances, manifest) ==
    [k \in DOMAIN instances \cup {manifest.id} |->
        IF k = manifest.id THEN from_manifest(manifest) ELSE instances[k]]

\* A removal that leaves the map as it is.
handle_subgraph_removed_lazily(instances, id) == instances

\* instances.remove(&id).
handle_subgraph_removed(instances, id) ==
    [k \in DOMAIN instances \ {id} |-> instances[k]]

\* The closure of receiver.for_each applied to one event.
handle_subgraph_event(instances, event) ==
    IF event.event = "SubgraphAdded"
    THEN handle_subgraph_added(instances, event.manifest)
    ELSE handle_subgraph_removed(instances, event.id)

InitManager ==
    /\ pc = "manager"
    /\ query = CompletionQuery
    /\ resolver = FullResolver
    /\ result = NoResult
    /\ trace = <<>>
    /\ coercion = NoCoercion
    /\ frames = <<>>
    /\ completion = NoCompletion
    /\ conn = NoConnection
    /\ manager = NewManager

\* A provider sends an event into the sink of the manager.
SendEvent ==
    \E event \in SubgraphProviderEvents :
        /\ Len(manager.sent) < MaxEvents
        /\ manager' = [manager EXCEPT !.sent = Append(@, event)]
        /\ UNCHANGED <<pc, query, resolver, result, trace, coercion, frames, completion, conn>>

\* The spawned task takes the next event of the channel and handles it.
HandleEvent ==
    /\ manager.handled < Len(manager.sent)
    /\ manager' = [manager EXCEPT
                       !.handled = @ + 1,
                       !.instances = handle_subgraph_event(@, manager.sent[manager.handled + 1])]
    /\ UNCHANGED <<pc, query, resolver, result, trace, coercion, frames, completion, conn>>

NextManager == SendEvent \/ HandleEvent

SpecManager == InitManager /\ [][NextManager]_vars

\* The events of an id among those handled; the last of them.
HandledOf(id) == {n \in 1..manager.handled : manager.sent[n].id = id}
MostRecentOf(id) == manager.sent[CHOOSE n \in HandledOf(id) : \A k \in HandledOf(id) : k <= n]

\* C30: whatever events were handled, in the order they were sent, the
\* instances map holds exactly the ids whose most recent handled event is
\* a SubgraphAdded, each with the instance of that event's manifest: a
\* SubgraphAdded for a present id replaces the instance, a SubgraphRemoved
\* for an absent id changes nothing, no event touches another id's entry.
C30_InstancesFollowMostRecentEvent ==
    manager.kind = "manager" =>
        /\ DOMAIN manager.instances \subseteq SubgraphIds
        /\ \A id \in SubgraphIds :
               IF HandledOf(id) # {} /\ MostRecentOf(id).event = "SubgraphAdded"
               THEN /\ id \in DOMAIN manager.instances
                    /\ manager.instances[id] = from_manifest(MostRecentOf(id).manifest)
               ELSE id \notin DOMAIN manager.instances

\* An instance was replaced by a second SubgraphAdded for its id, and a
\* SubgraphRemoved for the other id, which was absent, was handled after.
C30_Witness ==
    /\ manager.kind = "manager"
    /\ manager.handled = 3
    /\ \E id \in SubgraphIds, other \in SubgraphIds :
           /\ other # id
           /\ manager.sent = << SubgraphAdded(SubgraphManifest(id, "a")),
                                SubgraphAdded(SubgraphManifest(id, "b")),
                                SubgraphRemoved(other) >>
           /\ DOMAIN manager.instances = {id}
           /\ manager.instances[id] = from_manifest(SubgraphManifest(id, "b"))

=============================================================================
